---- MODULE Spec2Model ----
(***************************************************************************)
(* Jar ledger and recurring-expense scheduler of the expense tracker       *)
(* backend (src/backend/app).                                              *)
(*                                                                         *)
(* Money is counted in cents (the Numeric(12, 2) columns hold two          *)
(* decimals), percentages in whole percent, dates as proleptic Gregorian   *)
(* ordinals (datetime.date.toordinal).  Amounts sent by clients are whole  *)
(* cents; an income share amount * percentage / 100 is not, and is         *)
(* rounded by the store when the jar row is written.                       *)
(***************************************************************************)
EXTENDS Integers, Sequences, FiniteSets, TLC

VARIABLES
    jars,          \* jars table: id -> [user_id, percentage, balance]
    categories,    \* categories table: id -> [user_id, jar_id]
    expenses,      \* expenses table: id -> [user_id, category_id, amount, description, date]
    expense_seq,   \* last id handed out by expenses.id
    incomes,       \* incomes table: id -> [user_id, amount]
    income_seq,    \* last id handed out by incomes.id
    transfers,     \* transfers table, in insertion order
    recurring,     \* recurring_expenses table: id -> template row
    today,         \* date.today()
    response,      \* the last call's outcome: [op, status, detail, body]
    opening,       \* ghost: the balance each jar was created with
    distributed,   \* ghost: sum of the income shares handed to jars
    deducted,      \* ghost: sum of the expense amounts deducted from jars
    round_trip,    \* ghost: the expense the last call created in a linked
                   \* category, the jar's balance before, and whether the
                   \* call after it deleted that expense
    now,           \* func.now(), the server default of created_at, as a logical
                   \* time that moves on with the income and jar calls
    session,       \* the Session of the request being served: the changes made
                   \* in memory and not yet committed, or NoSession
    income_trip,   \* ghost: the income the last call created, the jars before
                   \* it, and whether the call after it deleted that income
    runs           \* ghost: the materializer runs made in immediate succession
                   \* up to now (at most the last two), how many expenses the
                   \* first of them created and the templates it left

vars == <<jars, categories, expenses, expense_seq, incomes, income_seq, transfers,
          recurring, today, response, opening, distributed, deducted,
          round_trip, now, session, income_trip, runs>>

ledgerGhosts == <<opening, distributed, deducted>>

----------------------------------------------------------------------------
(* Bounds of the model *)

MaxExpenses == 2    \* expenses ever created
MaxRows == 3        \* expenses, incomes and transfers ever created
MaxMaterialized == 3    \* expenses ever created from templates
MaxJars == 4        \* jars ever created
MaxNow == 4         \* logical time the income and jar calls are followed to
Horizon == 32       \* days the clock runs past Epoch

----------------------------------------------------------------------------
(* Values *)

None == 0

Users == {1, 2}

\* ids a client may name; 4 is the id of no row
JarIds == 1..4
CategoryIds == 1..4

\* rows created so far, against MaxRows
RowsCreated == expense_seq + income_seq + Len(transfers)

\* db.add(row): the table with the row under the next id
Insert(table, id, row) ==
    [i \in DOMAIN table \cup {id} |-> IF i = id THEN row ELSE table[i]]

\* db.delete / query.delete: the table without the rows in ids
Delete(table, ids) == [i \in DOMAIN table \ ids |-> table[i]]

NoRoundTrip == [id |-> None, jar |-> None, before |-> 0, done |-> FALSE]

NoSession == [op |-> ""]

NoIncomeTrip == [id |-> None, before |-> <<>>, done |-> FALSE]

NoRuns == [in_row |-> 0, first |-> 0, between |-> <<>>]

Sum(f, S) ==
    LET RECURSIVE Acc(_)
        Acc(T) == IF T = {} THEN 0
                  ELSE LET x == CHOOSE y \in T : TRUE IN f[x] + Acc(T \ {x})
    IN Acc(S)

\* n / d rounded to an integer the way PostgreSQL rounds a numeric to the
\* column's scale: to the nearest, ties away from zero.
RoundHalfAwayFromZero(n, d) ==
    IF n >= 0 THEN (2 * n + d) \div (2 * d)
    ELSE -((2 * (-n) + d) \div (2 * d))

----------------------------------------------------------------------------
(* Dates: datetime.date as its proleptic Gregorian ordinal, and the date
   arithmetic of datetime.timedelta and dateutil.relativedelta *)

is_leap(y) == (y % 4 = 0 /\ y % 100 # 0) \/ y % 400 = 0

days_in_month(y, m) ==
    IF m = 2 THEN (IF is_leap(y) THEN 29 ELSE 28)
    ELSE IF m \in {4, 6, 9, 11} THEN 30 ELSE 31

days_before_year(y) ==
    (y - 1) * 365 + (y - 1) \div 4 - (y - 1) \div 100 + (y - 1) \div 400

days_before_month(y, m) ==
    <<0, 31, 59, 90, 120, 151, 181, 212, 243, 273, 304, 334>>[m]
        + (IF m > 2 /\ is_leap(y) THEN 1 ELSE 0)

\* date(y, m, d).toordinal()
toordinal(y, m, d) == days_before_year(y) + days_before_month(y, m) + d

\* date.fromordinal(o) as [year, month, day]
ymd(o) ==
    LET n0 == o - 1
        n400 == n0 \div 146097
        n1 == n0 % 146097
        n100 == n1 \div 36524
        n2 == n1 % 36524
        n4 == n2 \div 1461
        n3 == n2 % 1461
        n1y == n3 \div 365
        n == n3 % 365
        year == n400 * 400 + 1 + n100 * 100 + n4 * 4 + n1y
    IN  IF n1y = 4 \/ n100 = 4
        THEN [year |-> year - 1, month |-> 12, day |-> 31]
        ELSE LET month == CHOOSE m \in 1..12 :
                              /\ days_before_month(year, m) <= n
                              /\ n < days_before_month(year, m) + days_in_month(year, m)
             IN  [year |-> year, month |-> month,
                  day |-> n - days_before_month(year, month) + 1]

\* date.weekday(): Monday is 0
weekday(o) == (o + 6) % 7

\* d + relativedelta(months=1): the same day of the next month, or that
\* month's last day when it is shorter
add_month(o) ==
    LET d == ymd(o)
        year == IF d.month = 12 THEN d.year + 1 ELSE d.year
        month == IF d.month = 12 THEN 1 ELSE d.month + 1
        day == IF d.day <= days_in_month(year, month) THEN d.day
               ELSE days_in_month(year, month)
    IN  toordinal(year, month, day)

\* d + relativedelta(years=1)
add_year(o) ==
    LET d == ymd(o)
        day == IF d.day <= days_in_month(d.year + 1, d.month) THEN d.day
               ELSE days_in_month(d.year + 1, d.month)
    IN  toordinal(d.year + 1, d.month, day)

\* seven days short of a week, six
add_week_six_days(o) == o + 6

\* d + timedelta(weeks=1)
add_week(o) == o + 7

\* the day clamping that falls back to the first day of the month
clamp_day_to_first(o, day_of_month) ==
    LET d == ymd(o)
    IN  IF day_of_month <= days_in_month(d.year, d.month)
        THEN toordinal(d.year, d.month, day_of_month)
        ELSE toordinal(d.year, d.month, 1)

\* the monthly "day clamping": d.replace(day=day_of_month), and on ValueError
\* d.replace(day=1) + relativedelta(months=1) - timedelta(days=1)
clamp_day(o, day_of_month) ==
    LET d == ymd(o)
    IN  IF day_of_month <= days_in_month(d.year, d.month)
        THEN toordinal(d.year, d.month, day_of_month)
        ELSE toordinal(d.year, d.month, days_in_month(d.year, d.month))

----------------------------------------------------------------------------
(* Jar ledger: services/jar_service.py *)

Response(op, status, detail, body) ==
    [op |-> op, status |-> status, detail |-> detail, body |-> body]

\* JarService.update_jar_balance: the jars table after the call.  The jar is
\* looked up by id alone; the change is staged, the caller commits.
update_jar_balance(jt, jar_id, amount_delta) ==
    IF jar_id = None \/ amount_delta = 0 THEN jt
    ELSE IF jar_id \in DOMAIN jt
         THEN [jt EXCEPT ![jar_id].balance = @ + amount_delta]
         ELSE jt

SumBalances(jt) == Sum([j \in DOMAIN jt |-> jt[j].balance], DOMAIN jt)

\* the deltas a caller passes, in cents
Deltas == {-100, 0, 100}

\* a call of JarService.update_jar_balance made while serving user u; it
\* returns None whatever it finds
update_jar_balance_call ==
    \E u \in Users, jar_id \in JarIds, amount_delta \in Deltas :
        /\ now < MaxNow
        /\ now' = now + 1
        /\ jars' = update_jar_balance(jars, jar_id, amount_delta)
        /\ response' = Response("update_jar_balance", None, "", <<u, jar_id>>)
        /\ round_trip' = NoRoundTrip
        /\ income_trip' = NoIncomeTrip
        /\ runs' = NoRuns
        /\ UNCHANGED <<categories, expenses, expense_seq, incomes, income_seq,
                       transfers, recurring, today, ledgerGhosts, session>>

----------------------------------------------------------------------------
(* Transfers: api/transfers.py *)

\* transfer_check with the same-jar test ahead of the amount test
transfer_check_same_jar_first(jt, u, f, t, a) ==
    IF f = t THEN Response("transfer_funds", 400, "Cannot transfer to the same jar", None)
    ELSE IF a <= 0
         THEN Response("transfer_funds", 400, "Transfer amount must be positive", None)
    ELSE IF ~(f \in DOMAIN jt /\ jt[f].user_id = u)
         THEN Response("transfer_funds", 404, "Source jar not found", None)
    ELSE IF ~(t \in DOMAIN jt /\ jt[t].user_id = u)
         THEN Response("transfer_funds", 404, "Destination jar not found", None)
    ELSE IF jt[f].balance < a
         THEN Response("transfer_funds", 400, "Insufficient funds in source jar", None)
    ELSE Response("transfer_funds", 200, "", None)

\* transfer_check without the "Check balance" test
transfer_check_no_balance_test(jt, u, f, t, a) ==
    IF a <= 0 THEN Response("transfer_funds", 400, "Transfer amount must be positive", None)
    ELSE IF f = t THEN Response("transfer_funds", 400, "Cannot transfer to the same jar", None)
    ELSE IF ~(f \in DOMAIN jt /\ jt[f].user_id = u)
         THEN Response("transfer_funds", 404, "Source jar not found", None)
    ELSE IF ~(t \in DOMAIN jt /\ jt[t].user_id = u)
         THEN Response("transfer_funds", 404, "Destination jar not found", None)
    ELSE Response("transfer_funds", 200, "", None)

\* transfer_funds up to the balance check: the error raised, or status 200.
transfer_check(jt, u, f, t, a) ==
    IF a <= 0 THEN Response("transfer_funds", 400, "Transfer amount must be positive", None)
    ELSE IF f = t THEN Response("transfer_funds", 400, "Cannot transfer to the same jar", None)
    ELSE IF ~(f \in DOMAIN jt /\ jt[f].user_id = u)
         THEN Response("transfer_funds", 404, "Source jar not found", None)
    ELSE IF ~(t \in DOMAIN jt /\ jt[t].user_id = u)
         THEN Response("transfer_funds", 404, "Destination jar not found", None)
    ELSE IF jt[f].balance < a
         THEN Response("transfer_funds", 400, "Insufficient funds in source jar", None)
    ELSE Response("transfer_funds", 200, "", None)

\* "Execute transfer": from_jar.balance -= amount; to_jar.balance += amount
transfer_execute(jt, f, t, a) ==
    LET debited == [jt EXCEPT ![f].balance = @ - a]
    IN  [debited EXCEPT ![t].balance = @ + a]

\* transfer_jars with the source debited before the balance is checked
transfer_jars_debit_first(jt, u, f, t, a) ==
    IF transfer_check(jt, u, f, t, a).status = 200
    THEN transfer_execute(jt, f, t, a)
    ELSE IF transfer_check(jt, u, f, t, a).detail = "Insufficient funds in source jar"
    THEN [jt EXCEPT ![f].balance = @ - a]
    ELSE jt

\* the jars table the request leaves behind
transfer_jars(jt, u, f, t, a) ==
    IF transfer_check(jt, u, f, t, a).status = 200
    THEN transfer_execute(jt, f, t, a)
    ELSE jt

\* the transfers table the request leaves behind
transfer_rows(rows, jt, u, f, t, a) ==
    IF transfer_check(jt, u, f, t, a).status = 200
    THEN Append(rows, [from_jar_id |-> f, to_jar_id |-> t, amount |-> a, user_id |-> u])
    ELSE rows

TransferAmounts == {0, 1, 15000}

\* POST /transfers by user u: move a from jar f to jar t
transfer_funds_call(u, f, t, a) ==
    /\ transfer_check(jars, u, f, t, a).status = 200 => RowsCreated < MaxRows
    /\ jars' = transfer_jars(jars, u, f, t, a)
    /\ transfers' = transfer_rows(transfers, jars, u, f, t, a)
    /\ response' = IF transfer_check(jars, u, f, t, a).status = 200
                   THEN Response("transfer_funds", 200, "", Len(transfers'))
                   ELSE transfer_check(jars, u, f, t, a)
    /\ round_trip' = NoRoundTrip
    /\ runs' = NoRuns
    /\ income_trip' = NoIncomeTrip
    /\ UNCHANGED <<now, session>>
    /\ UNCHANGED <<categories, expenses, expense_seq, incomes, income_seq,
                   recurring, today, ledgerGhosts>>

transfer_funds ==
    \E u \in Users, f \in JarIds, t \in JarIds, a \in TransferAmounts :
        transfer_funds_call(u, f, t, a)

----------------------------------------------------------------------------
(* Incomes: api/incomes.py *)

\* the rounded share of an income for a jar: amount * percentage / 100
income_share(amount, percentage) == RoundHalfAwayFromZero(amount * percentage, 100)

\* jar.balance += amount * percentage / 100, as the store keeps it at commit
credit_share(balance, amount, percentage) ==
    RoundHalfAwayFromZero(balance * 100 + amount * percentage, 100)

\* "Distribute to Jars": every jar of the user gets its share
distribute(jt, u, amount) ==
    [j \in DOMAIN jt |->
        IF jt[j].user_id = u
        THEN [jt[j] EXCEPT !.balance = credit_share(@, amount, jt[j].percentage)]
        ELSE jt[j]]

IncomeAmounts == {1, 100000}

create_income ==
    \E u \in Users, amount \in IncomeAmounts :
        /\ RowsCreated < MaxRows
        /\ income_seq' = income_seq + 1
        /\ incomes' = [i \in DOMAIN incomes \cup {income_seq'} |->
                          IF i = income_seq'
                          THEN [user_id |-> u, amount |-> amount, created_at |-> now + 1]
                          ELSE incomes[i]]
        /\ jars' = distribute(jars, u, amount)
        /\ response' = Response("create_income", 200, "", income_seq')
        /\ distributed' = distributed
               + Sum([j \in DOMAIN jars |->
                        IF jars[j].user_id = u
                        THEN income_share(amount, jars[j].percentage) ELSE 0],
                     DOMAIN jars)
        /\ round_trip' = NoRoundTrip
        /\ runs' = NoRuns
        /\ income_trip' = [id |-> income_seq', before |-> jars, done |-> FALSE]
        /\ now < MaxNow
        /\ now' = now + 1
        /\ UNCHANGED session
        /\ UNCHANGED <<categories, expenses, expense_seq, transfers, recurring, today,
                       opening, deducted>>

\* "Skip if jar was created AFTER the income"
jar_skipped(jar, income) ==
    /\ jar.created_at # None
    /\ income.created_at # None
    /\ jar.created_at > income.created_at

\* the share of income the reversal takes from jar, in hundredths of a cent
reversed_share(jar, income) ==
    IF jar_skipped(jar, income) THEN 0 ELSE income.amount * jar.percentage

\* update_income, "1. Reverse old distribution" and "3. Apply new
\* distribution" on the jars in memory, as the store keeps them at commit
update_income_jars(jt, u, income, amount) ==
    [j \in DOMAIN jt |->
        IF jt[j].user_id = u
        THEN [jt[j] EXCEPT !.balance =
                 RoundHalfAwayFromZero(@ * 100 - reversed_share(jt[j], income)
                                           + amount * jt[j].percentage, 100)]
        ELSE jt[j]]

\* db.query(Income).filter(Income.id == i, Income.user_id == u).first()
income_of_user(rows, i, u) == i \in DOMAIN rows /\ rows[i].user_id = u

\* ids a client may name; MaxRows + 1 is the id of no income
IncomeIds == 1..(MaxRows + 1)

update_income ==
    \E u \in Users, i \in IncomeIds, amount \in IncomeAmounts :
        /\ IF ~income_of_user(incomes, i, u)
           THEN /\ response' = Response("update_income", 404, "Income not found", None)
                /\ UNCHANGED <<jars, incomes, distributed>>
           ELSE /\ jars' = update_income_jars(jars, u, incomes[i], amount)
                /\ incomes' = [incomes EXCEPT ![i].amount = amount]
                /\ distributed' = distributed
                       + Sum([j \in DOMAIN jars |->
                                IF jars[j].user_id = u
                                THEN income_share(amount, jars[j].percentage)
                                     - (IF jar_skipped(jars[j], incomes[i]) THEN 0
                                        ELSE income_share(incomes[i].amount,
                                                          jars[j].percentage))
                                ELSE 0],
                             DOMAIN jars)
                /\ response' = Response("update_income", 200, "", i)
        /\ now < MaxNow
        /\ now' = now + 1
        /\ round_trip' = NoRoundTrip
        /\ income_trip' = NoIncomeTrip
        /\ runs' = NoRuns
        /\ UNCHANGED <<categories, expenses, expense_seq, income_seq, transfers,
                       recurring, today, opening, deducted, session>>

\* delete_income, "Reverse distribution from Jars based on CURRENT
\* percentages", as the store keeps the jars at commit
delete_income_jars(jt, u, income) ==
    [j \in DOMAIN jt |->
        IF jt[j].user_id = u
        THEN [jt[j] EXCEPT !.balance =
                 RoundHalfAwayFromZero(@ * 100 - reversed_share(jt[j], income), 100)]
        ELSE jt[j]]

delete_income ==
    \E u \in Users, i \in IncomeIds :
        /\ IF ~income_of_user(incomes, i, u)
           THEN /\ response' = Response("delete_income", 404, "Income not found", None)
                /\ income_trip' = NoIncomeTrip
                /\ UNCHANGED <<jars, incomes, distributed>>
           ELSE /\ jars' = delete_income_jars(jars, u, incomes[i])
                /\ incomes' = Delete(incomes, {i})
                /\ distributed' = distributed
                       - Sum([j \in DOMAIN jars |->
                                IF jars[j].user_id = u /\ ~jar_skipped(jars[j], incomes[i])
                                THEN income_share(incomes[i].amount, jars[j].percentage)
                                ELSE 0],
                             DOMAIN jars)
                /\ income_trip' = IF income_trip.id = i
                                  THEN [income_trip EXCEPT !.done = TRUE]
                                  ELSE NoIncomeTrip
                /\ response' = Response("delete_income", 204, "", i)
        /\ now < MaxNow
        /\ now' = now + 1
        /\ round_trip' = NoRoundTrip
        /\ runs' = NoRuns
        /\ UNCHANGED <<categories, expenses, expense_seq, income_seq, transfers,
                       recurring, today, opening, deducted, session>>

----------------------------------------------------------------------------
(* Jars: api/jars.py *)

\* the percentages and balances a client sends with a jar
JarPercentages == {40}
JarBalances == {5000}

\* POST /jars/
create_jar ==
    \E u \in Users, percentage \in JarPercentages :
        /\ Cardinality(DOMAIN jars) < MaxJars
        /\ jars' = Insert(jars, Cardinality(DOMAIN jars) + 1,
                          [user_id |-> u, percentage |-> percentage, balance |-> 0,
                           created_at |-> now + 1])
        /\ opening' = Insert(opening, Cardinality(DOMAIN jars) + 1, 0)
        /\ response' = Response("create_jar", 200, "", Cardinality(DOMAIN jars'))
        /\ now < MaxNow
        /\ now' = now + 1
        /\ round_trip' = NoRoundTrip
        /\ income_trip' = NoIncomeTrip
        /\ runs' = NoRuns
        /\ UNCHANGED <<categories, expenses, expense_seq, incomes, income_seq,
                       transfers, recurring, today, distributed, deducted, session>>

\* the fields of JarUpdate a client may set
JarUpdateFields == SUBSET {"percentage", "balance"}

\* PUT /jars/{jar_id}
update_jar ==
    \E u \in Users, jar_id \in JarIds, fields \in JarUpdateFields,
       percentage \in JarPercentages, balance \in JarBalances :
        /\ IF ~(jar_id \in DOMAIN jars /\ jars[jar_id].user_id = u)
           THEN /\ response' = Response("update_jar", 404, "Jar not found", None)
                /\ UNCHANGED jars
           ELSE /\ jars' = [jars EXCEPT
                               ![jar_id].percentage =
                                   IF "percentage" \in fields THEN percentage ELSE @,
                               ![jar_id].balance =
                                   IF "balance" \in fields THEN balance ELSE @]
                /\ response' = Response("update_jar", 200, "", jar_id)
        /\ now < MaxNow
        /\ now' = now + 1
        /\ round_trip' = NoRoundTrip
        /\ income_trip' = NoIncomeTrip
        /\ runs' = NoRuns
        /\ UNCHANGED <<categories, expenses, expense_seq, incomes, income_seq,
                       transfers, recurring, today, ledgerGhosts, session>>

----------------------------------------------------------------------------
(* Expenses: api/expenses.py *)

\* db.query(Category).filter(Category.id == c, Category.user_id == u).first()
category_of_user(cats, c, u) == c \in DOMAIN cats /\ cats[c].user_id = u

\* db.query(Expense).filter(Expense.id == e, Expense.user_id == u).first()
expense_of_user(exps, e, u) == e \in DOMAIN exps /\ exps[e].user_id = u

\* the jar a category is linked to when the request runs, or None
jar_of_category(cats, c) == IF c \in DOMAIN cats THEN cats[c].jar_id ELSE None

\* create_expense, "Deduct from Jar if linked"
create_expense_jars(jt, cats, c, amount) ==
    IF jar_of_category(cats, c) # None
    THEN update_jar_balance(jt, jar_of_category(cats, c), -amount)
    ELSE jt

ExpenseAmounts == {1, 2}

ExpenseRow(u, c, amount, description, d) ==
    [user_id |-> u, category_id |-> c, amount |-> amount,
     description |-> description, date |-> d]

create_expense ==
    \E u \in Users, c \in CategoryIds, amount \in ExpenseAmounts :
        /\ IF ~category_of_user(categories, c, u)
           THEN /\ response' = Response("create_expense", 400, "Category not found", None)
                /\ round_trip' = NoRoundTrip
                /\ UNCHANGED <<jars, expenses, expense_seq, deducted>>
           ELSE /\ expense_seq < MaxExpenses /\ RowsCreated < MaxRows
                /\ expense_seq' = expense_seq + 1
                /\ expenses' = Insert(expenses, expense_seq',
                                      ExpenseRow(u, c, amount, "api", today))
                /\ jars' = create_expense_jars(jars, categories, c, amount)
                /\ deducted' = deducted
                       + (IF jar_of_category(categories, c) # None THEN amount ELSE 0)
                /\ response' = Response("create_expense", 201, "", expense_seq')
                /\ round_trip' =
                       IF jar_of_category(categories, c) # None
                       THEN [id |-> expense_seq', jar |-> jar_of_category(categories, c),
                             before |-> jars[jar_of_category(categories, c)].balance,
                             done |-> FALSE]
                       ELSE NoRoundTrip
        /\ runs' = NoRuns
        /\ income_trip' = NoIncomeTrip
        /\ UNCHANGED <<now, session>>
        /\ UNCHANGED <<categories, incomes, income_seq, transfers, recurring, today,
                       opening, distributed>>

\* update_expense_jars that leaves the jar alone when the category changed
\* and the old and the new category are linked to the same jar
update_expense_jars_short_circuit(jt, cats, prev_amount, prev_category_id, amount, category_id) ==
    IF category_id # prev_category_id
    THEN IF jar_of_category(cats, prev_category_id) = jar_of_category(cats, category_id)
         THEN jt
         ELSE update_jar_balance(
                  update_jar_balance(jt, jar_of_category(cats, prev_category_id),
                                     prev_amount),
                  jar_of_category(cats, category_id), -amount)
    ELSE update_jar_balance(jt, jar_of_category(cats, category_id), prev_amount - amount)

\* update_expense_jars deducting the old amount from the new category's jar
update_expense_jars_stale_amount(jt, cats, prev_amount, prev_category_id, amount, category_id) ==
    IF category_id # prev_category_id
    THEN LET refunded ==
                 IF jar_of_category(cats, prev_category_id) # None
                 THEN update_jar_balance(jt, jar_of_category(cats, prev_category_id),
                                         prev_amount)
                 ELSE jt
         IN  IF jar_of_category(cats, category_id) # None
             THEN update_jar_balance(refunded, jar_of_category(cats, category_id),
                                     -prev_amount)
             ELSE refunded
    ELSE IF amount # prev_amount
    THEN IF jar_of_category(cats, category_id) # None
         THEN update_jar_balance(jt, jar_of_category(cats, category_id),
                                 prev_amount - amount)
         ELSE jt
    ELSE jt

\* update_expense, "JAR LOGIC": the jars table after an update that takes the
\* expense from (prev_amount, prev_category_id) to (amount, category_id)
update_expense_jars(jt, cats, prev_amount, prev_category_id, amount, category_id) ==
    IF category_id # prev_category_id
    THEN LET refunded ==
                 IF jar_of_category(cats, prev_category_id) # None
                 THEN update_jar_balance(jt, jar_of_category(cats, prev_category_id),
                                         prev_amount)
                 ELSE jt
         IN  IF jar_of_category(cats, category_id) # None
             THEN update_jar_balance(refunded, jar_of_category(cats, category_id), -amount)
             ELSE refunded
    ELSE IF amount # prev_amount
    THEN IF jar_of_category(cats, category_id) # None
         THEN update_jar_balance(jt, jar_of_category(cats, category_id),
                                 prev_amount - amount)
         ELSE jt
    ELSE jt

\* the fields an ExpenseUpdate may set (exclude_unset drops the others)
UpdateFields == SUBSET {"amount", "category_id"}

update_expense ==
    \E u \in Users, e \in 1..MaxExpenses, fields \in UpdateFields,
       amount \in ExpenseAmounts, c \in CategoryIds :
        /\ "amount" \notin fields => amount = 1
        /\ "category_id" \notin fields => c = 1
        /\ IF ~expense_of_user(expenses, e, u)
           THEN /\ response' = Response("update_expense", 404, "Expense not found", None)
                /\ UNCHANGED <<jars, expenses>>
           ELSE IF "category_id" \in fields /\ ~category_of_user(categories, c, u)
           THEN /\ response' = Response("update_expense", 400, "Category not found", None)
                /\ UNCHANGED <<jars, expenses>>
           ELSE LET prev == expenses[e]
                    new_amount == IF "amount" \in fields THEN amount ELSE prev.amount
                    new_category == IF "category_id" \in fields THEN c
                                    ELSE prev.category_id
                IN  /\ expenses' = [expenses EXCEPT ![e].amount = new_amount,
                                                    ![e].category_id = new_category]
                    /\ jars' = update_expense_jars(jars, categories, prev.amount,
                                                   prev.category_id, new_amount,
                                                   new_category)
                    /\ response' = Response("update_expense", 200, "", e)
        /\ round_trip' = NoRoundTrip
        /\ runs' = NoRuns
        /\ income_trip' = NoIncomeTrip
        /\ UNCHANGED <<now, session>>
        /\ UNCHANGED <<categories, expense_seq, incomes, income_seq, transfers, recurring,
                       today, ledgerGhosts>>

\* delete_expense_jars taking the expense's category id for the jar id
delete_expense_jars_by_category_id(jt, cats, row) ==
    update_jar_balance(jt, row.category_id, row.amount)

\* delete_expense_jars deducting the amount a second time instead of refunding it
delete_expense_jars_deduct(jt, cats, row) ==
    IF jar_of_category(cats, row.category_id) # None
    THEN update_jar_balance(jt, jar_of_category(cats, row.category_id), -row.amount)
    ELSE jt

\* delete_expense, "Refund to Jar if linked"
delete_expense_jars(jt, cats, row) ==
    IF jar_of_category(cats, row.category_id) # None
    THEN update_jar_balance(jt, jar_of_category(cats, row.category_id), row.amount)
    ELSE jt

delete_expense ==
    \E u \in Users, e \in 1..MaxExpenses :
        /\ IF ~expense_of_user(expenses, e, u)
           THEN /\ response' = Response("delete_expense", 404, "Expense not found", None)
                /\ round_trip' = NoRoundTrip
                /\ UNCHANGED <<jars, expenses>>
           ELSE /\ jars' = delete_expense_jars(jars, categories, expenses[e])
                /\ expenses' = Delete(expenses, {e})
                /\ response' = Response("delete_expense", 204, "", None)
                /\ round_trip' = IF round_trip.id = e /\ ~round_trip.done
                                 THEN [round_trip EXCEPT !.done = TRUE]
                                 ELSE NoRoundTrip
        /\ runs' = NoRuns
        /\ income_trip' = NoIncomeTrip
        /\ UNCHANGED <<now, session>>
        /\ UNCHANGED <<categories, expense_seq, incomes, income_seq, transfers, recurring,
                       today, ledgerGhosts>>

\* bulk_delete_expenses, "Process Jar Refunds": one refund per expense found
RECURSIVE bulk_delete_jars(_, _, _, _)
bulk_delete_jars(jt, cats, exps, found) ==
    IF found = {} THEN jt
    ELSE LET e == CHOOSE x \in found : \A y \in found : x <= y
         IN  bulk_delete_jars(delete_expense_jars(jt, cats, exps[e]), cats, exps,
                              found \ {e})

\* Expense.id.in_(ids), Expense.user_id == u
expenses_found(exps, ids, u) == {e \in ids : expense_of_user(exps, e, u)}

bulk_delete_expenses ==
    \E u \in Users, ids \in SUBSET (1..MaxExpenses) :
        /\ IF ids = {}
           THEN /\ response' = Response("bulk_delete_expenses", 400, "No expense IDs provided", None)
                /\ UNCHANGED <<jars, expenses>>
           ELSE IF expenses_found(expenses, ids, u) = {}
           THEN /\ response' = Response("bulk_delete_expenses", 404, "No expenses found to delete", None)
                /\ UNCHANGED <<jars, expenses>>
           ELSE /\ jars' = bulk_delete_jars(jars, categories, expenses,
                                            expenses_found(expenses, ids, u))
                /\ expenses' = Delete(expenses, expenses_found(expenses, ids, u))
                /\ response' = Response("bulk_delete_expenses", 204, "", None)
        /\ round_trip' = NoRoundTrip
        /\ runs' = NoRuns
        /\ income_trip' = NoIncomeTrip
        /\ UNCHANGED <<now, session>>
        /\ UNCHANGED <<categories, expense_seq, incomes, income_seq, transfers, recurring,
                       today, ledgerGhosts>>

\* bulk_update_jars that deducts from the new jar and refunds no old jar
bulk_update_jars_no_refund(jt, cats, exps, found, category_id) ==
    [j \in DOMAIN jt |->
        IF jar_of_category(cats, category_id) = j
        THEN [jt[j] EXCEPT !.balance =
                 @ - Sum([e \in found |-> exps[e].amount], found)]
        ELSE jt[j]]

\* bulk_update_expenses, the loop "1. Refund Old  2. Deduct New"
RECURSIVE bulk_update_jars(_, _, _, _, _)
bulk_update_jars(jt, cats, exps, found, category_id) ==
    IF found = {} THEN jt
    ELSE LET e == CHOOSE x \in found : \A y \in found : x <= y
             refunded == delete_expense_jars(jt, cats, exps[e])
             deducted_new ==
                 IF jar_of_category(cats, category_id) # None
                 THEN update_jar_balance(refunded, jar_of_category(cats, category_id),
                                         -exps[e].amount)
                 ELSE refunded
         IN  bulk_update_jars(deducted_new, cats, exps, found \ {e}, category_id)

bulk_update_expenses ==
    \E u \in Users, ids \in SUBSET (1..MaxExpenses), c \in CategoryIds \cup {None} :
        /\ IF ids = {}
           THEN /\ response' = Response("bulk_update_expenses", 400, "No expense IDs provided", None)
                /\ UNCHANGED <<jars, expenses>>
           ELSE IF c = None
           THEN /\ response' = Response("bulk_update_expenses", 400, "No update fields provided", None)
                /\ UNCHANGED <<jars, expenses>>
           ELSE IF ~category_of_user(categories, c, u)
           THEN /\ response' = Response("bulk_update_expenses", 400, "Category not found", None)
                /\ UNCHANGED <<jars, expenses>>
           ELSE IF expenses_found(expenses, ids, u) = {}
           THEN /\ response' = Response("bulk_update_expenses", 200, "", {})
                /\ UNCHANGED <<jars, expenses>>
           ELSE /\ jars' = bulk_update_jars(jars, categories, expenses,
                                            expenses_found(expenses, ids, u), c)
                /\ expenses' = [e \in DOMAIN expenses |->
                                   IF e \in expenses_found(expenses, ids, u)
                                   THEN [expenses[e] EXCEPT !.category_id = c]
                                   ELSE expenses[e]]
                /\ response' = Response("bulk_update_expenses", 200, "", expenses_found(expenses, ids, u))
        /\ round_trip' = NoRoundTrip
        /\ runs' = NoRuns
        /\ income_trip' = NoIncomeTrip
        /\ UNCHANGED <<now, session>>
        /\ UNCHANGED <<categories, expense_seq, incomes, income_seq, transfers, recurring,
                       today, ledgerGhosts>>

----------------------------------------------------------------------------
(* The ledger after construction *)

\* jars 1 and 2 belong to user 1, jar 3 to user 2 (api/jars.py create_jar);
\* p the percentages, b the balance jars 1 and 2 are created with
JarTable(p, b) ==
    [j \in 1..3 |-> [user_id |-> IF j = 3 THEN 2 ELSE 1,
                     percentage |-> p[j],
                     balance |-> IF j = 3 THEN 0 ELSE b,
                     created_at |-> 1]]

\* categories 1..3 belong to user 1; l the jar each is linked to
CategoryTable(l) == [c \in 1..3 |-> [user_id |-> 1, jar_id |-> l[c]]]

\* the ledgers the runs start from: percentages, opening balance, links
Setups ==
    { <<(<<60, 40, 100>>), 10000, (<<1, 2, None>>)>>,
      <<(<<50, 50, 100>>), 0, (<<1, 2, None>>)>>,
      <<(<<50, 50, 100>>), 0, (<<1, 1, None>>)>> }

\* the day the runs start on
Epoch == toordinal(2024, 1, 29)

InitLedger ==
    /\ \E s \in Setups : /\ jars = JarTable(s[1], s[2])
                         /\ categories = CategoryTable(s[3])
    /\ expenses = <<>>
    /\ expense_seq = 0
    /\ incomes = <<>>
    /\ income_seq = 0
    /\ transfers = <<>>
    /\ recurring = <<>>
    /\ today = Epoch
    /\ response = Response("", None, "", None)
    /\ opening = [j \in DOMAIN jars |-> jars[j].balance]
    /\ distributed = 0
    /\ deducted = 0
    /\ round_trip = NoRoundTrip
    /\ now = 1
    /\ session = NoSession
    /\ income_trip = NoIncomeTrip
    /\ runs = NoRuns

NextLedger == create_income \/ create_expense \/ transfer_funds

SpecLedger == InitLedger /\ [][NextLedger]_vars

NextExpense ==
    \/ create_expense
    \/ update_expense
    \/ delete_expense
    \/ bulk_delete_expenses
    \/ bulk_update_expenses

SpecExpense == InitLedger /\ [][NextExpense]_vars

SpecApplyDelta == InitLedger /\ [][update_jar_balance_call]_vars

NextIncome ==
    \/ create_income
    \/ update_income
    \/ delete_income
    \/ create_jar
    \/ update_jar

SpecIncome == InitLedger /\ [][NextIncome]_vars

----------------------------------------------------------------------------
(* Recurring expenses: models/recurring_expense.py,
   core/recurring_expense_service.py, api/recurring_expenses.py *)

\* a schedule whose first occurrence is one week after start_date
next_due_date_after_start(r, day) ==
    IF ~r.is_active THEN None
    ELSE IF r.end_date # None /\ add_week(r.start_date) > r.end_date THEN None
    ELSE add_week(r.start_date)

\* a schedule that never looks at end_date
next_due_date_without_end(r, day) ==
    IF ~r.is_active THEN None
    ELSE IF r.last_created = None THEN r.start_date
    ELSE add_week(r.last_created)

\* RecurringExpense.next_due_date, the schedule the materializer reads
next_due_date(r, day) ==
    IF ~r.is_active THEN None
    ELSE IF /\ r.end_date # None
            /\ r.end_date < day
            /\ (r.last_created = None \/ r.last_created < r.end_date)
    THEN None
    ELSE IF r.last_created = None
    THEN (IF r.end_date # None /\ r.start_date > r.end_date THEN None
          ELSE r.start_date)
    ELSE LET base_date == r.last_created
             next_date ==
                 CASE r.frequency = "monthly" ->
                          IF r.day_of_month # None
                          THEN clamp_day(add_month(base_date), r.day_of_month)
                          ELSE add_month(base_date)
                   [] r.frequency = "weekly" -> add_week(base_date)
                   [] r.frequency = "yearly" -> add_year(base_date)
                   [] OTHER -> None
         IN  IF next_date = None THEN None
             ELSE IF r.end_date # None /\ next_date > r.end_date THEN None
             ELSE next_date

\* the loops of calculate_next_due_date: add periods while next_date <= today
RECURSIVE months_after(_, _, _)
months_after(next_date, day_of_month, day) ==
    IF next_date <= day
    THEN months_after(clamp_day(add_month(next_date), day_of_month), day_of_month, day)
    ELSE next_date

RECURSIVE weeks_after(_, _)
weeks_after(next_date, day) ==
    IF next_date <= day THEN weeks_after(next_date + 7, day) ELSE next_date

RECURSIVE years_after(_, _)
years_after(next_date, day) ==
    IF next_date <= day THEN years_after(add_year(next_date), day) ELSE next_date

\* calculate_next_due_date, the schedule the API reads
calculate_next_due_date(r, day) ==
    IF ~r.is_active THEN None
    ELSE IF r.end_date # None /\ r.end_date < day THEN None
    ELSE LET base_date == IF r.last_created # None THEN r.last_created
                          ELSE r.start_date
             days_ahead == r.day_of_week - weekday(base_date)
             next_date ==
                 CASE r.frequency = "monthly" ->
                          months_after(base_date, r.day_of_month, day)
                   [] r.frequency = "weekly" ->
                          weeks_after(base_date + (IF days_ahead <= 0
                                                   THEN days_ahead + 7
                                                   ELSE days_ahead), day)
                   [] r.frequency = "yearly" -> years_after(base_date, day)
                   [] OTHER -> None
         IN  IF next_date = None THEN None
             ELSE IF r.end_date # None /\ next_date > r.end_date THEN None
             ELSE next_date

\* create_expense_from_recurring that moves last_created to start_date
create_expense_from_recurring_to_start(db, id, due_date) ==
    [db EXCEPT !.expense_seq = @ + 1,
               !.expenses = Insert(@, db.expense_seq + 1,
                                   ExpenseRow(db.recurring[id].user_id,
                                              db.recurring[id].category_id,
                                              db.recurring[id].amount,
                                              db.recurring[id].description,
                                              due_date)),
               !.recurring[id].last_created = db.recurring[id].start_date]

\* create_expense_from_recurring that leaves last_created where it was
create_expense_from_recurring_keeps_pointer(db, id, due_date) ==
    [db EXCEPT !.expense_seq = @ + 1,
               !.expenses = Insert(@, db.expense_seq + 1,
                                   ExpenseRow(db.recurring[id].user_id,
                                              db.recurring[id].category_id,
                                              db.recurring[id].amount,
                                              db.recurring[id].description,
                                              due_date))]

\* RecurringExpenseService.create_expense_from_recurring on the tables db:
\* the expense row and the template's last_created, in one commit
create_expense_from_recurring(db, id, due_date) ==
    [db EXCEPT !.expense_seq = @ + 1,
               !.expenses = Insert(@, db.expense_seq + 1,
                                   ExpenseRow(db.recurring[id].user_id,
                                              db.recurring[id].category_id,
                                              db.recurring[id].amount,
                                              db.recurring[id].description,
                                              due_date)),
               !.recurring[id].last_created = due_date]

\* a turn of the loop that dates the expense on the day of the run
process_one_dated_today(db, id, next_due, day) ==
    IF next_due # None /\ next_due <= day
    THEN [create_expense_from_recurring(db, id, day) EXCEPT !.count = @ + 1]
    ELSE db

\* one turn of the loop of process_all_due_expenses: template id is
\* materialized when its next_due is today or in the past
process_one(db, id, next_due, day) ==
    IF next_due # None /\ next_due <= day
    THEN [create_expense_from_recurring(db, id, next_due) EXCEPT !.count = @ + 1]
    ELSE db

\* the template the query of process_all_due_expenses yields first
first_id(ids) == CHOOSE i \in ids : \A k \in ids : i <= k

\* the loop of process_all_due_expenses over the active templates ids, in
\* id order
RECURSIVE process_due(_, _, _)
process_due(db, ids, day) ==
    IF ids = {} THEN db
    ELSE process_due(process_one(db, first_id(ids),
                                 next_due_date(db.recurring[first_id(ids)], day), day),
                     ids \ {first_id(ids)}, day)

\* the active templates of process_all_due_expenses
active_recurrings == {id \in DOMAIN recurring : recurring[id].is_active}

\* RecurringExpenseService.process_all_due_expenses
process_all_due_expenses ==
    \E db \in {process_due([expenses |-> expenses, expense_seq |-> expense_seq,
                            recurring |-> recurring, count |-> 0],
                           active_recurrings, today)} :
        /\ db.expense_seq <= MaxMaterialized
        /\ expenses' = db.expenses
        /\ expense_seq' = db.expense_seq
        /\ recurring' = db.recurring
        /\ response' = Response("process_all_due_expenses", 200, "", db.count)
        /\ round_trip' = NoRoundTrip
        /\ runs' = IF runs.in_row = 0
                   THEN [in_row |-> 1, first |-> db.count, between |-> <<>>]
                   ELSE [in_row |-> 2, first |-> response.body,
                         between |-> recurring]
        /\ income_trip' = NoIncomeTrip
        /\ UNCHANGED <<now, session>>
        /\ UNCHANGED <<jars, categories, incomes, income_seq, transfers, today,
                       ledgerGhosts>>

\* the statements of create_expense_from_recurring that reach the database
\* and can raise: db.commit() and db.refresh(expense)
FailurePoints == {"commit", "refresh"}

\* create_expense_from_recurring raising at point: a commit that fails is
\* rolled back, a refresh that fails comes after the commit has been stored
create_expense_from_recurring_raising(db, id, due_date, point) ==
    IF point = "commit" THEN db
    ELSE create_expense_from_recurring(db, id, due_date)

\* one turn of the loop of process_all_due_expenses when the call for the
\* template failing raises at point: the except branch skips count += 1
process_one_raising(db, id, next_due, day, failing, point) ==
    IF next_due # None /\ next_due <= day /\ id = failing
    THEN create_expense_from_recurring_raising(db, id, next_due, point)
    ELSE process_one(db, id, next_due, day)

RECURSIVE process_due_raising(_, _, _, _, _)
process_due_raising(db, ids, day, failing, point) ==
    IF ids = {} THEN db
    ELSE process_due_raising(
             process_one_raising(db, first_id(ids),
                                 next_due_date(db.recurring[first_id(ids)], day),
                                 day, failing, point),
             ids \ {first_id(ids)}, day, failing, point)

\* RecurringExpenseService.process_all_due_expenses, a run in which the call
\* for one due template raises
process_all_due_expenses_raising ==
    \E failing \in active_recurrings, point \in FailurePoints :
        \E db \in {process_due_raising([expenses |-> expenses,
                                        expense_seq |-> expense_seq,
                                        recurring |-> recurring, count |-> 0],
                                       active_recurrings, today, failing, point)} :
            /\ next_due_date(recurring[failing], today) # None
            /\ next_due_date(recurring[failing], today) <= today
            /\ db.expense_seq <= MaxMaterialized
            /\ expenses' = db.expenses
            /\ expense_seq' = db.expense_seq
            /\ recurring' = db.recurring
            /\ response' = Response("process_all_due_expenses", 200, point,
                                    <<db.count, failing>>)
            /\ round_trip' = NoRoundTrip
            /\ runs' = NoRuns
            /\ income_trip' = NoIncomeTrip
            /\ UNCHANGED <<now, session>>
            /\ UNCHANGED <<jars, categories, incomes, income_seq, transfers, today,
                           ledgerGhosts>>

\* ids a client may name; 3 is the id of no template
RecurringIds == 1..3

\* POST /recurring-expenses/{recurring_id}/create-expense
create_expense_from_template ==
    \E u \in Users, id \in RecurringIds :
        LET found == id \in DOMAIN recurring /\ recurring[id].user_id = u
            next_due == calculate_next_due_date(recurring[id], today)
            op == "create_expense_from_template"
        IN  /\ IF ~found
               THEN /\ response' = Response(op, 404, "Recurring expense not found", None)
                    /\ UNCHANGED <<expenses, expense_seq, recurring>>
               ELSE IF ~recurring[id].is_active
               THEN /\ response' = Response(op, 400,
                                       "Cannot create expense from inactive template", None)
                    /\ UNCHANGED <<expenses, expense_seq, recurring>>
               ELSE IF next_due = None
               THEN /\ response' = Response(op, 400,
                                       "No upcoming due date for this recurring expense", None)
                    /\ UNCHANGED <<expenses, expense_seq, recurring>>
               ELSE /\ expense_seq < MaxMaterialized
                    /\ expense_seq' = expense_seq + 1
                    /\ expenses' = Insert(expenses, expense_seq',
                                          ExpenseRow(u, recurring[id].category_id,
                                                     recurring[id].amount,
                                                     recurring[id].description,
                                                     next_due))
                    /\ recurring' = [recurring EXCEPT ![id].last_created = next_due]
                    /\ response' = Response(op, 201, "", expense_seq')
            /\ round_trip' = NoRoundTrip
            /\ runs' = NoRuns
            /\ income_trip' = NoIncomeTrip
            /\ UNCHANGED <<now, session>>
            /\ UNCHANGED <<jars, categories, incomes, income_seq, transfers, today,
                           ledgerGhosts>>

\* date.today() moves on to the next day
day_passes ==
    /\ today < Epoch + Horizon
    /\ today' = today + 1
    /\ runs' = NoRuns
    /\ income_trip' = NoIncomeTrip
    /\ UNCHANGED <<now, session>>
    /\ UNCHANGED <<jars, categories, expenses, expense_seq, incomes, income_seq,
                   transfers, recurring, response, round_trip, ledgerGhosts>>

\* a template row as create_recurring_expense stores it for user 1
Template(category_id, frequency, day_of_month, day_of_week, start_date, end_date, is_active) ==
    [user_id |-> 1, category_id |-> category_id, amount |-> 500,
     description |-> "", frequency |-> frequency, day_of_month |-> day_of_month,
     day_of_week |-> day_of_week, start_date |-> start_date,
     end_date |-> end_date, is_active |-> is_active, last_created |-> None]

\* the templates the runs start from: a monthly one on the 31st that starts
\* after Epoch, a weekly one two periods overdue at Epoch, a yearly one a
\* year overdue, a weekly one with an end date, and a paused one
Templates ==
    { Template(1, "monthly", 31, None, toordinal(2024, 1, 31), None, TRUE),
      Template(1, "weekly", None, 2, toordinal(2024, 1, 17), None, TRUE),
      Template(3, "yearly", None, None, toordinal(2023, 2, 1), None, TRUE),
      Template(2, "weekly", None, 2, toordinal(2024, 1, 24),
               toordinal(2024, 2, 10), TRUE),
      Template(1, "weekly", None, 2, toordinal(2024, 1, 17), None, FALSE) }

Descriptions == <<"rent", "gym">>

InitRecurring ==
    /\ jars = JarTable(<<60, 40, 100>>, 10000)
    /\ categories = CategoryTable(<<1, 2, None>>)
    /\ expenses = <<>>
    /\ expense_seq = 0
    /\ incomes = <<>>
    /\ income_seq = 0
    /\ transfers = <<>>
    /\ \E t1 \in Templates, t2 \in Templates :
           recurring = <<[t1 EXCEPT !.description = Descriptions[1]],
                         [t2 EXCEPT !.description = Descriptions[2]]>>
    /\ today = Epoch
    /\ response = Response("", None, "", None)
    /\ opening = [j \in DOMAIN jars |-> jars[j].balance]
    /\ distributed = 0
    /\ deducted = 0
    /\ round_trip = NoRoundTrip
    /\ now = 1
    /\ session = NoSession
    /\ income_trip = NoIncomeTrip
    /\ runs = NoRuns

NextRecurring ==
    \/ process_all_due_expenses
    \/ create_expense_from_template
    \/ day_passes

SpecRecurring == InitRecurring /\ [][NextRecurring]_vars

\* the runs of the materializer, with and without a call that raises
NextMaterializer ==
    \/ process_all_due_expenses
    \/ process_all_due_expenses_raising
    \/ day_passes

SpecMaterializer == InitRecurring /\ [][NextMaterializer]_vars

\* the days the catch-up runs are made on
CatchUpDays == (Epoch - 6)..(Epoch + 3)

\* one template, on a day that stays the same while the runs are repeated
InitCatchUp ==
    /\ jars = JarTable(<<60, 40, 100>>, 10000)
    /\ categories = CategoryTable(<<1, 2, None>>)
    /\ expenses = <<>>
    /\ expense_seq = 0
    /\ incomes = <<>>
    /\ income_seq = 0
    /\ transfers = <<>>
    /\ \E t \in Templates : recurring = <<[t EXCEPT !.description = Descriptions[1]]>>
    /\ today \in CatchUpDays
    /\ response = Response("", None, "", None)
    /\ opening = [j \in DOMAIN jars |-> jars[j].balance]
    /\ distributed = 0
    /\ deducted = 0
    /\ round_trip = NoRoundTrip
    /\ now = 1
    /\ session = NoSession
    /\ income_trip = NoIncomeTrip
    /\ runs = NoRuns

\* the run is made again and again (api/cron.py triggers it)
SpecCatchUp ==
    InitCatchUp /\ [][process_all_due_expenses]_vars
        /\ WF_vars(process_all_due_expenses)

\* the days the schedule is read on and the dates a template holds
ScheduleDates ==
    { toordinal(2024, 1, 31), toordinal(2024, 2, 10), toordinal(2024, 2, 29),
      toordinal(2024, 3, 6), toordinal(2024, 3, 13), toordinal(2024, 3, 31) }

\* frequency with the day_of_month and day_of_week stored with it; a
\* template that update_recurring_expense has turned monthly has no
\* day_of_month
Frequencies ==
    { <<"monthly", 15, None>>, <<"monthly", 30, None>>, <<"monthly", 31, None>>,
      <<"monthly", None, 2>>, <<"weekly", None, 0>>, <<"weekly", None, 2>>,
      <<"yearly", None, None>> }

\* reading the property RecurringExpense.next_due_date of template 1
read_next_due_date ==
    /\ response' = Response("next_due_date", 200, "", next_due_date(recurring[1], today))
    /\ round_trip' = NoRoundTrip
    /\ runs' = NoRuns
    /\ income_trip' = NoIncomeTrip
    /\ UNCHANGED <<jars, categories, expenses, expense_seq, incomes, income_seq,
                   transfers, recurring, today, ledgerGhosts, now, session>>

\* one template of user 1 in any stage of its life, on any of the days
InitSchedule ==
    /\ jars = JarTable(<<60, 40, 100>>, 10000)
    /\ categories = CategoryTable(<<1, 2, None>>)
    /\ expenses = <<>>
    /\ expense_seq = 0
    /\ incomes = <<>>
    /\ income_seq = 0
    /\ transfers = <<>>
    /\ today \in ScheduleDates
    /\ \E f \in Frequencies, is_active \in BOOLEAN,
          start_date \in {toordinal(2024, 1, 31), toordinal(2024, 3, 6)},
          end_date \in {None} \cup ScheduleDates,
          last_created \in {None} \cup {d \in ScheduleDates : d <= today} :
           recurring = <<[Template(1, f[1], f[2], f[3], start_date, end_date, is_active)
                             EXCEPT !.description = Descriptions[1],
                                    !.last_created = last_created]>>
    /\ response = Response("", None, "", None)
    /\ opening = [j \in DOMAIN jars |-> jars[j].balance]
    /\ distributed = 0
    /\ deducted = 0
    /\ round_trip = NoRoundTrip
    /\ now = 1
    /\ session = NoSession
    /\ income_trip = NoIncomeTrip
    /\ runs = NoRuns

\* calculate_next_due_date raises: the monthly loop runs and
\* next_date.replace(day=None) is a TypeError, which the handler does not
\* catch
calculate_raises(r, day) ==
    /\ r.is_active
    /\ ~(r.end_date # None /\ r.end_date < day)
    /\ r.frequency = "monthly"
    /\ r.day_of_month = None
    /\ (IF r.last_created # None THEN r.last_created ELSE r.start_date) <= day

\* GET /recurring-expenses: the next_due_date reported for template 1
get_recurring_expenses ==
    /\ response' = IF calculate_raises(recurring[1], today)
                   THEN Response("get_recurring_expenses", 500,
                                 "Internal Server Error", None)
                   ELSE Response("get_recurring_expenses", 200, "",
                                 calculate_next_due_date(recurring[1], today))
    /\ round_trip' = NoRoundTrip
    /\ runs' = NoRuns
    /\ income_trip' = NoIncomeTrip
    /\ UNCHANGED <<jars, categories, expenses, expense_seq, incomes, income_seq,
                   transfers, recurring, today, ledgerGhosts, now, session>>

NextSchedule ==
    \/ read_next_due_date
    \/ get_recurring_expenses
    \/ process_all_due_expenses

SpecSchedule == InitSchedule /\ [][NextSchedule]_vars

----------------------------------------------------------------------------
(* A request step by step: the changes a handler makes to the objects of its
   Session (core/database.py, autoflush off) reach the store at db.commit(),
   in one transaction; a request that fails before that is closed by get_db
   and its changes are dropped *)

\* the Session a handler starts with: the rows as stored, nothing pending.
\* shares holds, per jar, the income shares added in memory and not yet
\* rounded by the store, in hundredths of a cent
Begin(op, args) ==
    [op |-> op, pc |-> "begun", args |-> args,
     jars |-> jars, shares |-> [j \in DOMAIN jars |-> 0],
     expenses |-> expenses, expense_seq |-> expense_seq,
     incomes |-> incomes, transfers |-> transfers,
     distributed |-> distributed, deducted |-> deducted]

\* create_expense: db.add(expense)
create_expense_db_add ==
    \E u \in Users, c \in CategoryIds, amount \in ExpenseAmounts :
        /\ session = NoSession
        /\ category_of_user(categories, c, u)
        /\ expense_seq < MaxExpenses /\ RowsCreated < MaxRows
        /\ now < MaxNow
        /\ now' = now + 1
        /\ session' = [Begin("create_expense", <<c, amount>>) EXCEPT
                          !.pc = "added",
                          !.expense_seq = @ + 1,
                          !.expenses = Insert(@, expense_seq + 1,
                                              ExpenseRow(u, c, amount, "api", today))]
        /\ UNCHANGED <<jars, categories, expenses, expense_seq, incomes, income_seq,
                       transfers, recurring, today, response, ledgerGhosts,
                       round_trip, income_trip, runs>>

\* create_expense: "Deduct from Jar if linked"
create_expense_update_jar_balance ==
    /\ session.op = "create_expense" /\ session.pc = "added"
    /\ session' = [session EXCEPT
                      !.pc = "ready",
                      !.jars = create_expense_jars(@, categories, session.args[1],
                                                   session.args[2]),
                      !.deducted = @ + (IF jar_of_category(categories, session.args[1]) # None
                                        THEN session.args[2] ELSE 0)]
    /\ UNCHANGED <<jars, categories, expenses, expense_seq, incomes, income_seq,
                   transfers, recurring, today, response, ledgerGhosts,
                   round_trip, now, income_trip, runs>>

\* transfer_funds: the checks passed, "Execute transfer"
transfer_funds_execute ==
    \E u \in Users, f \in JarIds, t \in JarIds, a \in TransferAmounts :
        /\ session = NoSession
        /\ transfer_check(jars, u, f, t, a).status = 200
        /\ RowsCreated < MaxRows
        /\ now < MaxNow
        /\ now' = now + 1
        /\ session' = [Begin("transfer_funds", <<u, f, t, a>>) EXCEPT
                          !.pc = "executed",
                          !.jars = transfer_execute(@, f, t, a)]
        /\ UNCHANGED <<jars, categories, expenses, expense_seq, incomes, income_seq,
                       transfers, recurring, today, response, ledgerGhosts,
                       round_trip, income_trip, runs>>

\* transfer_funds: "Record transfer", db.add(db_transfer)
transfer_funds_db_add ==
    /\ session.op = "transfer_funds" /\ session.pc = "executed"
    /\ session' = [session EXCEPT
                      !.pc = "ready",
                      !.transfers = Append(@, [from_jar_id |-> session.args[2],
                                               to_jar_id |-> session.args[3],
                                               amount |-> session.args[4],
                                               user_id |-> session.args[1]])]
    /\ UNCHANGED <<jars, categories, expenses, expense_seq, incomes, income_seq,
                   transfers, recurring, today, response, ledgerGhosts,
                   round_trip, now, income_trip, runs>>

\* update_income: "1. Reverse old distribution"
update_income_reverse ==
    \E u \in Users, i \in IncomeIds, amount \in IncomeAmounts :
        /\ session = NoSession
        /\ income_of_user(incomes, i, u)
        /\ now < MaxNow
        /\ now' = now + 1
        /\ session' = [Begin("update_income", <<u, i, amount>>) EXCEPT
                          !.pc = "reversed",
                          !.shares = [j \in DOMAIN jars |->
                                         IF jars[j].user_id = u
                                         THEN -reversed_share(jars[j], incomes[i])
                                         ELSE 0],
                          !.distributed =
                              @ - Sum([j \in DOMAIN jars |->
                                         IF jars[j].user_id = u
                                            /\ ~jar_skipped(jars[j], incomes[i])
                                         THEN income_share(incomes[i].amount,
                                                           jars[j].percentage)
                                         ELSE 0],
                                      DOMAIN jars)]
        /\ UNCHANGED <<jars, categories, expenses, expense_seq, incomes, income_seq,
                       transfers, recurring, today, response, ledgerGhosts,
                       round_trip, income_trip, runs>>

\* update_income: "2. Update income record"
update_income_setattr ==
    /\ session.op = "update_income" /\ session.pc = "reversed"
    /\ session' = [session EXCEPT
                      !.pc = "set",
                      !.incomes[session.args[2]].amount = session.args[3]]
    /\ UNCHANGED <<jars, categories, expenses, expense_seq, incomes, income_seq,
                   transfers, recurring, today, response, ledgerGhosts,
                   round_trip, now, income_trip, runs>>

\* update_income: "3. Apply new distribution"
update_income_apply ==
    /\ session.op = "update_income" /\ session.pc = "set"
    /\ session' = [session EXCEPT
                      !.pc = "ready",
                      !.shares = [j \in DOMAIN jars |->
                                     IF jars[j].user_id = session.args[1]
                                     THEN @[j] + session.args[3] * jars[j].percentage
                                     ELSE @[j]],
                      !.distributed =
                          @ + Sum([j \in DOMAIN jars |->
                                     IF jars[j].user_id = session.args[1]
                                     THEN income_share(session.args[3],
                                                       jars[j].percentage)
                                     ELSE 0],
                                  DOMAIN jars)]
    /\ UNCHANGED <<jars, categories, expenses, expense_seq, incomes, income_seq,
                   transfers, recurring, today, response, ledgerGhosts,
                   round_trip, now, income_trip, runs>>

\* db.commit() that writes the rows and leaves the balances unflushed
commit_jars_not_flushed(ses) == jars

\* the jars table db.commit() stores: the balances of the Session, the pending
\* shares rounded by the Numeric(12, 2) column
commit_jars(ses) ==
    [j \in DOMAIN ses.jars |->
        [ses.jars[j] EXCEPT !.balance =
            RoundHalfAwayFromZero(@ * 100 + ses.shares[j], 100)]]

\* db.commit(): everything the handler changed, in one transaction
db_commit ==
    /\ session.op # "" /\ session.pc = "ready"
    /\ jars' = commit_jars(session)
    /\ expenses' = session.expenses
    /\ expense_seq' = session.expense_seq
    /\ incomes' = session.incomes
    /\ transfers' = session.transfers
    /\ distributed' = session.distributed
    /\ deducted' = session.deducted
    /\ response' = Response(session.op, 200, "", None)
    /\ session' = NoSession
    /\ round_trip' = NoRoundTrip
    /\ income_trip' = NoIncomeTrip
    /\ runs' = NoRuns
    /\ UNCHANGED <<categories, income_seq, recurring, today, opening, now>>

\* an exception before the commit has succeeded: get_db closes the Session
db_close ==
    /\ session.op # ""
    /\ response' = Response(session.op, 500, "Internal Server Error", session.pc)
    /\ session' = NoSession
    /\ round_trip' = NoRoundTrip
    /\ income_trip' = NoIncomeTrip
    /\ runs' = NoRuns
    /\ UNCHANGED <<jars, categories, expenses, expense_seq, incomes, income_seq,
                   transfers, recurring, today, ledgerGhosts, now>>

\* user 1 with jars at 60 % and 40 % that an income of 1000.00 has filled
InitAtomic ==
    /\ jars = distribute(JarTable(<<60, 40, 100>>, 0), 1, 100000)
    /\ categories = CategoryTable(<<1, 2, None>>)
    /\ expenses = <<>>
    /\ expense_seq = 0
    /\ incomes = <<[user_id |-> 1, amount |-> 100000, created_at |-> 2]>>
    /\ income_seq = 1
    /\ transfers = <<>>
    /\ recurring = <<>>
    /\ today = Epoch
    /\ response = Response("", None, "", None)
    /\ opening = [j \in DOMAIN jars |-> 0]
    /\ distributed = 100000
    /\ deducted = 0
    /\ round_trip = NoRoundTrip
    /\ now = 2
    /\ session = NoSession
    /\ income_trip = NoIncomeTrip
    /\ runs = NoRuns

NextAtomic ==
    \/ create_expense_db_add
    \/ create_expense_update_jar_balance
    \/ transfer_funds_execute
    \/ transfer_funds_db_add
    \/ update_income_reverse
    \/ update_income_setattr
    \/ update_income_apply
    \/ db_commit
    \/ db_close

SpecAtomic == InitAtomic /\ [][NextAtomic]_vars

----------------------------------------------------------------------------
(* Category links: schemas/category.py CategoryUpdate; the handler that
   applies it belongs to api/categories.py *)

\* the jars a CategoryUpdate of user u may name, or none
LinkTargets(u) == {None} \cup {j \in DOMAIN jars : jars[j].user_id = u}

\* the category ids the requests name: category 1 and the id of no category
RelinkedCategories == {1, 4}

\* PUT /categories/{id} with jar_id set: the category is linked to another
\* jar, independently of any expense; no balance is touched
update_category ==
    \E u \in Users, c \in RelinkedCategories :
        \E jar_id \in LinkTargets(u) :
            /\ now < MaxNow
            /\ now' = now + 1
            /\ IF ~category_of_user(categories, c, u)
               THEN /\ response' = Response("update_category", 404, "Category not found", None)
                    /\ UNCHANGED categories
               ELSE /\ categories' = [categories EXCEPT ![c].jar_id = jar_id]
                    /\ response' = Response("update_category", 200, "", c)
            /\ round_trip' = NoRoundTrip
            /\ income_trip' = NoIncomeTrip
            /\ runs' = NoRuns
            /\ UNCHANGED <<jars, expenses, expense_seq, incomes, income_seq, transfers,
                           recurring, today, ledgerGhosts, session>>

NextLinkage ==
    \/ create_expense
    \/ delete_expense
    \/ update_category

\* user 1 with categories 1 and 2 linked to jars 1 and 2
InitLinkage ==
    /\ jars = JarTable(<<60, 40, 100>>, 10000)
    /\ categories = CategoryTable(<<1, 2, None>>)
    /\ expenses = <<>>
    /\ expense_seq = 0
    /\ incomes = <<>>
    /\ income_seq = 0
    /\ transfers = <<>>
    /\ recurring = <<>>
    /\ today = Epoch
    /\ response = Response("", None, "", None)
    /\ opening = [j \in DOMAIN jars |-> jars[j].balance]
    /\ distributed = 0
    /\ deducted = 0
    /\ round_trip = NoRoundTrip
    /\ now = 1
    /\ session = NoSession
    /\ income_trip = NoIncomeTrip
    /\ runs = NoRuns

SpecLinkage == InitLinkage /\ [][NextLinkage]_vars

----------------------------------------------------------------------------
(* Requests in flight together: each request has its own Session
   (core/database.py get_db), reads a jar when its query runs, changes the
   loaded balance in memory and writes that value at db.commit(); no query
   locks the row and the engine keeps the default isolation level *)

\* the requests the server handles at the same time
Workers == {1, 2}

\* in these runs session holds the Session of every worker
NoSessions == [w \in Workers |-> NoSession]

\* create_expense requests that have added their row and not yet committed
ExpensesInFlight ==
    Cardinality({w \in Workers : session[w].op = "create_expense"})

\* transfer_funds requests that have not yet committed
TransfersInFlight ==
    Cardinality({w \in Workers : session[w].op = "transfer_funds"})

\* the jar rows a Session has loaded (read), the same rows as the handler
\* has changed them in memory (jars) and the ids of the changed ones (dirty)
Loaded(op, pc, args, read, in_memory, dirty) ==
    [op |-> op, pc |-> pc, args |-> args, read |-> read, jars |-> in_memory,
     dirty |-> dirty]

\* create_expense up to db.add(expense): no jar has been read yet
race_create_expense_db_add(w) ==
    \E u \in Users, c \in CategoryIds, amount \in ExpenseAmounts :
        /\ session[w] = NoSession
        /\ category_of_user(categories, c, u)
        /\ expense_seq + ExpensesInFlight < MaxExpenses
        /\ RowsCreated + ExpensesInFlight + TransfersInFlight < MaxRows
        /\ session' = [session EXCEPT
                          ![w] = Loaded("create_expense", "added", <<u, c, amount>>,
                                        <<>>, <<>>, {})]
        /\ UNCHANGED <<jars, categories, expenses, expense_seq, incomes, income_seq,
                       transfers, recurring, today, response, ledgerGhosts,
                       round_trip, now, income_trip, runs>>

\* create_expense, "Deduct from Jar if linked": update_jar_balance queries
\* the jar and changes the loaded balance
race_create_expense_update_jar_balance(w) ==
    /\ session[w].op = "create_expense" /\ session[w].pc = "added"
    /\ session' = [session EXCEPT
                      ![w] = Loaded("create_expense", "ready", @.args, jars,
                                    create_expense_jars(jars, categories, @.args[2],
                                                        @.args[3]),
                                    {jar_of_category(categories, @.args[2])}
                                        \cap DOMAIN jars)]
    /\ UNCHANGED <<jars, categories, expenses, expense_seq, incomes, income_seq,
                   transfers, recurring, today, response, ledgerGhosts,
                   round_trip, now, income_trip, runs>>

\* transfer_funds up to the two queries that load the source and the
\* destination jar
race_transfer_funds_query(w) ==
    \E u \in Users, f \in JarIds, t \in JarIds, a \in TransferAmounts :
        /\ session[w] = NoSession
        /\ transfer_check(jars, u, f, t, a).detail
               \in {"", "Insufficient funds in source jar"}
        /\ RowsCreated + ExpensesInFlight + TransfersInFlight < MaxRows
        /\ session' = [session EXCEPT
                          ![w] = Loaded("transfer_funds", "read", <<u, f, t, a>>,
                                        jars, jars, {})]
        /\ UNCHANGED <<jars, categories, expenses, expense_seq, incomes, income_seq,
                       transfers, recurring, today, response, ledgerGhosts,
                       round_trip, now, income_trip, runs>>

\* transfer_funds, "Check balance" on the loaded source jar, then "Execute
\* transfer" in memory and db.add(db_transfer)
race_transfer_funds_execute(w) ==
    /\ session[w].op = "transfer_funds" /\ session[w].pc = "read"
    /\ LET args == session[w].args
           check == transfer_check(session[w].read, args[1], args[2], args[3], args[4])
       IN  IF check.status = 200
           THEN /\ session' = [session EXCEPT
                                  ![w].pc = "ready",
                                  ![w].jars = transfer_execute(@, args[2], args[3],
                                                               args[4]),
                                  ![w].dirty = {args[2], args[3]}]
                /\ UNCHANGED <<response, round_trip, income_trip, runs>>
           ELSE /\ session' = [session EXCEPT ![w] = NoSession]
                /\ response' = Response("transfer_funds", check.status, check.detail, w)
                /\ round_trip' = NoRoundTrip
                /\ income_trip' = NoIncomeTrip
                /\ runs' = NoRuns
    /\ UNCHANGED <<jars, categories, expenses, expense_seq, incomes, income_seq,
                   transfers, recurring, today, ledgerGhosts, now>>

\* a commit whose UPDATE adds the change to the balance the row holds
commit_dirty_relative(store, ses) ==
    [j \in DOMAIN store |->
        IF j \in ses.dirty
        THEN [store[j] EXCEPT !.balance = @ + ses.jars[j].balance - ses.read[j].balance]
        ELSE store[j]]

\* the jars table after the flush of a Session: an UPDATE of each changed
\* jar that sets the balance the Session holds in memory
commit_dirty(store, ses) ==
    [j \in DOMAIN store |->
        IF j \in ses.dirty
        THEN [store[j] EXCEPT !.balance = ses.jars[j].balance]
        ELSE store[j]]

\* db.commit() of the request of worker w
race_db_commit(w) ==
    /\ session[w] # NoSession /\ session[w].pc = "ready"
    /\ jars' = commit_dirty(jars, session[w])
    /\ IF session[w].op = "create_expense"
       THEN /\ expense_seq' = expense_seq + 1
            /\ expenses' = Insert(expenses, expense_seq',
                                  ExpenseRow(session[w].args[1], session[w].args[2],
                                             session[w].args[3], "api", today))
            /\ deducted' = deducted + (IF session[w].dirty # {}
                                       THEN session[w].args[3] ELSE 0)
            /\ UNCHANGED transfers
       ELSE /\ transfers' = Append(transfers,
                                   [from_jar_id |-> session[w].args[2],
                                    to_jar_id |-> session[w].args[3],
                                    amount |-> session[w].args[4],
                                    user_id |-> session[w].args[1]])
            /\ UNCHANGED <<expenses, expense_seq, deducted>>
    /\ response' = Response(session[w].op, 200, "", w)
    /\ session' = [session EXCEPT ![w] = NoSession]
    /\ round_trip' = NoRoundTrip
    /\ income_trip' = NoIncomeTrip
    /\ runs' = NoRuns
    /\ UNCHANGED <<categories, incomes, income_seq, recurring, today, opening,
                   distributed, now>>

InitRace ==
    /\ \E s \in Setups : /\ jars = JarTable(s[1], s[2])
                         /\ categories = CategoryTable(s[3])
    /\ expenses = <<>>
    /\ expense_seq = 0
    /\ incomes = <<>>
    /\ income_seq = 0
    /\ transfers = <<>>
    /\ recurring = <<>>
    /\ today = Epoch
    /\ response = Response("", None, "", None)
    /\ opening = [j \in DOMAIN jars |-> jars[j].balance]
    /\ distributed = 0
    /\ deducted = 0
    /\ round_trip = NoRoundTrip
    /\ now = 1
    /\ session = NoSessions
    /\ income_trip = NoIncomeTrip
    /\ runs = NoRuns

NextRace ==
    \E w \in Workers :
        \/ race_create_expense_db_add(w)
        \/ race_create_expense_update_jar_balance(w)
        \/ race_transfer_funds_query(w)
        \/ race_transfer_funds_execute(w)
        \/ race_db_commit(w)

SpecRace == InitRace /\ [][NextRace]_vars

----------------------------------------------------------------------------
(* Two instances of the materializer in flight together: each has its own
   Session, loads the active templates with its query, computes next_due
   from the attributes it holds and commits per template; a commit expires
   the attributes of its own Session, which are loaded again on next access *)

\* the template id as the Session ses holds it: as loaded by the query, or
\* loaded again from the table when a commit of the Session has expired it
held(ses, id) == IF ses.expired THEN recurring[id] ELSE ses.recurring[id]

\* process_all_due_expenses up to the query of the active templates
materializer_query(w) ==
    /\ session[w] = NoSession
    /\ session' = [session EXCEPT
                      ![w] = [op |-> "process_all_due_expenses", pc |-> "loop",
                              recurring |-> recurring, pending |-> active_recurrings,
                              expired |-> FALSE, id |-> None, next_due |-> None,
                              count |-> 0]]
    /\ UNCHANGED <<jars, categories, expenses, expense_seq, incomes, income_seq,
                   transfers, recurring, today, response, ledgerGhosts,
                   round_trip, now, income_trip, runs>>

\* the head of a turn of the loop: next_due = recurring.next_due_date and
\* the test "due date is today or in the past"
materializer_next_due(w) ==
    /\ session[w].op = "process_all_due_expenses"
    /\ session[w].pc = "loop"
    /\ session[w].pending # {}
    /\ LET id == first_id(session[w].pending)
           next_due == next_due_date(held(session[w], id), today)
       IN  session' = [session EXCEPT
                          ![w].pending = @ \ {id},
                          ![w].id = id,
                          ![w].next_due = next_due,
                          ![w].pc = IF next_due # None /\ next_due <= today
                                    THEN "due" ELSE "loop"]
    /\ UNCHANGED <<jars, categories, expenses, expense_seq, incomes, income_seq,
                   transfers, recurring, today, response, ledgerGhosts,
                   round_trip, now, income_trip, runs>>

\* a commit that skips a template whose stored last_created is already the
\* due date
materializer_store_once(db, id, due_date) ==
    IF db.recurring[id].last_created = due_date THEN db
    ELSE create_expense_from_recurring(db, id, due_date)

\* the tables after create_expense_from_recurring has committed for the
\* template id: the INSERT of the expense and the UPDATE of last_created
materializer_store(db, id, due_date) ==
    create_expense_from_recurring(db, id, due_date)

\* the body of a turn: create_expense_from_recurring and count += 1
materializer_create(w) ==
    /\ session[w].op = "process_all_due_expenses"
    /\ session[w].pc = "due"
    /\ expense_seq < MaxMaterialized
    /\ \E db \in {materializer_store([expenses |-> expenses,
                                      expense_seq |-> expense_seq,
                                      recurring |-> recurring],
                                     session[w].id, session[w].next_due)} :
           /\ expenses' = db.expenses
           /\ expense_seq' = db.expense_seq
           /\ recurring' = db.recurring
    /\ session' = [session EXCEPT ![w].pc = "loop",
                                  ![w].expired = TRUE,
                                  ![w].count = @ + 1]
    /\ UNCHANGED <<jars, categories, incomes, income_seq, transfers, today,
                   response, ledgerGhosts, round_trip, now, income_trip, runs>>

\* the loop is over: return count
materializer_return(w) ==
    /\ session[w].op = "process_all_due_expenses"
    /\ session[w].pc = "loop"
    /\ session[w].pending = {}
    /\ response' = Response("process_all_due_expenses", 200, "", session[w].count)
    /\ session' = [session EXCEPT ![w] = NoSession]
    /\ round_trip' = NoRoundTrip
    /\ income_trip' = NoIncomeTrip
    /\ runs' = NoRuns
    /\ UNCHANGED <<jars, categories, expenses, expense_seq, incomes, income_seq,
                   transfers, recurring, today, ledgerGhosts, now>>

InitInstances ==
    /\ jars = JarTable(<<60, 40, 100>>, 10000)
    /\ categories = CategoryTable(<<1, 2, None>>)
    /\ expenses = <<>>
    /\ expense_seq = 0
    /\ incomes = <<>>
    /\ income_seq = 0
    /\ transfers = <<>>
    /\ \E t1 \in Templates, t2 \in Templates :
           recurring = <<[t1 EXCEPT !.description = Descriptions[1]],
                         [t2 EXCEPT !.description = Descriptions[2]]>>
    /\ today = Epoch
    /\ response = Response("", None, "", None)
    /\ opening = [j \in DOMAIN jars |-> jars[j].balance]
    /\ distributed = 0
    /\ deducted = 0
    /\ round_trip = NoRoundTrip
    /\ now = 1
    /\ session = NoSessions
    /\ income_trip = NoIncomeTrip
    /\ runs = NoRuns

NextInstances ==
    \E w \in Workers :
        \/ materializer_query(w)
        \/ materializer_next_due(w)
        \/ materializer_create(w)
        \/ materializer_return(w)

SpecInstances == InitInstances /\ [][NextInstances]_vars

----------------------------------------------------------------------------
(* The jar ledger's properties *)

\* the expenses that exist and whose category is linked to jar j
ExpensesOfJar(j) ==
    {e \in DOMAIN expenses : jar_of_category(categories, expenses[e].category_id) = j}

\* C1: conservation.  After any sequence of income creations, expense
\* creations and transfers on a fixed set of jars, the sum of the jar balances
\* is the opening sum plus the income shares distributed (amount *
\* percentage / 100 rounded to cents, per jar) minus the expense amounts
\* deducted; transfers add nothing.
C1_Conservation ==
    SumBalances(jars) = Sum(opening, DOMAIN opening) + distributed - deducted

\* C2: with the links fixed and neither income nor transfer, after any sequence
\* of expense API calls every jar holds its opening balance minus the amounts
\* of the existing expenses whose category is linked to it.
C2_PerJarLedger ==
    \A j \in DOMAIN jars :
        jars[j].balance =
            opening[j] - Sum([e \in DOMAIN expenses |-> expenses[e].amount],
                             ExpensesOfJar(j))

\* C2's case: an update or a bulk call went through and linked expenses exist
C2_Witness ==
    /\ response.op \in {"update_expense", "bulk_update_expenses", "bulk_delete_expenses"}
    /\ response.status \in {200, 204}
    /\ \E j \in DOMAIN jars : ExpensesOfJar(j) # {} /\ jars[j].balance # opening[j]

\* C6: an expense created in a linked category and deleted by the next call
\* leaves the jar's balance exactly where it was before the creation.
C6_RoundTripRefund ==
    round_trip.done => jars[round_trip.jar].balance = round_trip.before

\* C6's case: a create followed by the delete of that expense, on a jar whose
\* balance the creation had changed
C6_Witness ==
    /\ round_trip.done
    /\ response.op = "delete_expense"
    /\ response.status = 204
    /\ round_trip.jar \in DOMAIN jars

\* C7: a transfer that is rejected, for whichever reason, leaves every jar and
\* the transfers table as they were.
C7_RejectedTransferChangesNothing ==
    [][(response'.op = "transfer_funds" /\ response'.status # 200)
         => (jars' = jars /\ transfers' = transfers)]_vars

\* C7's case: a transfer of 150.00 refused on a jar holding 100.00
C7_Witness ==
    /\ response.op = "transfer_funds"
    /\ response.detail = "Insufficient funds in source jar"
    /\ \E j \in DOMAIN jars : jars[j].user_id = 1 /\ jars[j].balance = 10000

\* the four preconditions of a transfer, in the order of the specification
TransferAmountPositive(a) == a > 0
TransferDistinctJars(f, t) == f # t
TransferJarsOwned(u, f, t) ==
    /\ f \in DOMAIN jars /\ jars[f].user_id = u
    /\ t \in DOMAIN jars /\ jars[t].user_id = u
TransferFunded(f, a) == jars[f].balance >= a

\* C8: the preconditions of a transfer are checked in the order amount > 0,
\* from # to, both jars exist and are the caller's, balance >= amount; in every
\* reachable ledger and for every request, the error answered is that of the
\* first one violated, and the four errors differ from each other.
C8_TransferErrorOrder ==
    \A u \in Users, f \in JarIds, t \in JarIds, a \in TransferAmounts :
        LET answer == transfer_check(jars, u, f, t, a)
        IN  IF ~TransferAmountPositive(a)
            THEN /\ answer.status = 400
                 /\ answer.detail = "Transfer amount must be positive"
            ELSE IF ~TransferDistinctJars(f, t)
            THEN /\ answer.status = 400
                 /\ answer.detail = "Cannot transfer to the same jar"
            ELSE IF ~TransferJarsOwned(u, f, t)
            THEN /\ answer.status = 404
                 /\ answer.detail \in {"Source jar not found", "Destination jar not found"}
            ELSE IF ~TransferFunded(f, a)
            THEN /\ answer.status = 400
                 /\ answer.detail = "Insufficient funds in source jar"
            ELSE answer.status = 200

\* C8's case: a transfer was refused because a jar is missing or someone
\* else's, on a ledger where the caller's jars could not have funded it either
C8_Witness ==
    /\ response.op = "transfer_funds"
    /\ response.status = 404
    /\ \E j \in DOMAIN jars : jars[j].user_id = 1 /\ jars[j].balance < 15000

\* C9: a successful transfer of a from F to T takes exactly a from F, adds
\* exactly a to T, inserts one Transfer row, leaves the other jars alone and
\* leaves F non-negative; no transfer makes a non-negative jar negative.
C9_TransferEffect ==
    [][(response'.op = "transfer_funds" /\ response'.status = 200) =>
         /\ Len(transfers') = Len(transfers) + 1
         /\ SubSeq(transfers', 1, Len(transfers)) = transfers
         /\ LET row == transfers'[Len(transfers')]
                f == row.from_jar_id
                t == row.to_jar_id
            IN  /\ f \in DOMAIN jars /\ t \in DOMAIN jars /\ f # t
                /\ row.amount > 0
                /\ jars'[f].balance = jars[f].balance - row.amount
                /\ jars'[t].balance = jars[t].balance + row.amount
                /\ \A j \in DOMAIN jars \ {f, t} : jars'[j] = jars[j]
                /\ jars'[f].balance >= 0
         /\ \A j \in DOMAIN jars : jars[j].balance >= 0 => jars'[j].balance >= 0]_vars

\* C9's case: a transfer went through
C9_Witness ==
    /\ response.op = "transfer_funds"
    /\ response.status = 200
    /\ Len(transfers) > 0

\* C10: creating an income of amount A adds A * percentage / 100, rounded to
\* cents, to every jar of the user and nothing to any other jar, and stores
\* the income.
C10_IncomeDistribution ==
    [][response'.op = "create_income" =>
         /\ income_seq' \in DOMAIN incomes'
         /\ \A j \in DOMAIN jars :
              jars'[j].balance - jars[j].balance =
                  IF jars[j].user_id = incomes'[income_seq'].user_id
                  THEN income_share(incomes'[income_seq'].amount, jars[j].percentage)
                  ELSE 0]_vars

----------------------------------------------------------------------------
(* The materializer's properties *)

\* the occurrence of template r one period after the one it materialized last
OnePeriodAfter(r) ==
    CASE r.frequency = "monthly" ->
             clamp_day(add_month(r.last_created), r.day_of_month)
      [] r.frequency = "weekly" -> r.last_created + 7
      [] r.frequency = "yearly" -> add_year(r.last_created)

\* template r was materialized and its following occurrence has come as well
PeriodOverdue(r) ==
    r.is_active /\ r.last_created # None /\ OnePeriodAfter(r) <= today

\* C3 as stated: of two materializer runs made in immediate succession on the
\* same day, the second creates no expense.
C3_SecondRunCreatesNothing ==
    runs.in_row = 2 => response.body = 0

\* C3, amended: of two materializer runs made in immediate succession on the
\* same day, the second creates no expense when the first left no template
\* with a further occurrence already due, that is when no template was two
\* or more periods overdue.
C3_SecondRunCreatesNothingUnlessOverdue ==
    (/\ runs.in_row = 2
     /\ \A id \in DOMAIN runs.between : ~PeriodOverdue(runs.between[id]))
        => response.body = 0

\* a second run that created nothing right after a first run that created one
C3_Witness ==
    /\ runs.in_row = 2
    /\ runs.first >= 1
    /\ \A id \in DOMAIN runs.between : ~PeriodOverdue(runs.between[id])
    /\ response.op = "process_all_due_expenses"
    /\ response.body = 0

\* C4: under sequential materializer runs and manual create-expense calls, no
\* two expenses created from the same template carry the same date.
C4_OneExpensePerDueDate ==
    \A e1 \in DOMAIN expenses, e2 \in DOMAIN expenses :
        (e1 # e2 /\ expenses[e1].description = expenses[e2].description)
            => expenses[e1].date # expenses[e2].date

\* the expenses a step created
Created == {e \in DOMAIN expenses' : e \notin DOMAIN expenses}

\* C5: a materializer run lowers each jar's balance by the amounts of the
\* expenses it created in the categories linked to that jar.
C5_MaterializerDeductsFromJar ==
    [][response'.op = "process_all_due_expenses" =>
          \A j \in DOMAIN jars :
              jars'[j].balance = jars[j].balance
                  - Sum([e \in Created |->
                            IF jar_of_category(categories, expenses'[e].category_id) = j
                            THEN expenses'[e].amount ELSE 0], Created)]_vars

----------------------------------------------------------------------------
(* The income distribution's properties *)

\* the calls on income i that were carried out
IncomeChanged(i) ==
    /\ response'.op \in {"update_income", "delete_income"}
    /\ response'.status \in {200, 204}
    /\ response'.body = i

\* C11: an update or a deletion of an income leaves the balance of every jar
\* created after that income as it was.
C11_LateJarUntouched ==
    [][\A i \in DOMAIN incomes, j \in DOMAIN jars :
           (IncomeChanged(i) /\ jars[j].created_at > incomes[i].created_at)
               => jars'[j].balance = jars[j].balance]_vars

\* C12: an income created and deleted by the next call leaves every jar with
\* the balance it had before the creation, and no income record.
C12_IncomeRoundTrip ==
    income_trip.done =>
        /\ \A j \in DOMAIN income_trip.before :
               jars[j].balance = income_trip.before[j].balance
        /\ income_trip.id \notin DOMAIN incomes

\* C15: PUT /jars/{id} does not write the balance of a jar.
C15_UpdateJarKeepsBalance ==
    [][response'.op = "update_jar" =>
          \A j \in DOMAIN jars : jars'[j].balance = jars[j].balance]_vars

----------------------------------------------------------------------------
(* Category reassignment *)

\* what jar j gets back from and gives for expense e when the expense moves
\* from the category it has now to the category it has next
ReassignmentDelta(j, e) ==
    (IF jar_of_category(categories, expenses[e].category_id) = j
     THEN expenses[e].amount ELSE 0)
        - (IF jar_of_category(categories, expenses'[e].category_id) = j
           THEN expenses[e].amount ELSE 0)

\* C13: bulk_update_expenses refunds each moved expense's amount to the jar
\* of its old category and deducts it from the jar of the target category,
\* so a batch whose old and target categories are linked to the same jar
\* leaves every balance unchanged.
C13_ReassignmentNeutral ==
    [][(response'.op = "bulk_update_expenses" /\ response'.status = 200) =>
          /\ \A j \in DOMAIN jars :
                 jars'[j].balance = jars[j].balance
                     + Sum([e \in response'.body |-> ReassignmentDelta(j, e)],
                           response'.body)
          /\ (\A e \in response'.body :
                  jar_of_category(categories, expenses[e].category_id)
                      = jar_of_category(categories, expenses'[e].category_id))
                 => jars' = jars]_vars

\* a batch of two expenses moved to a category that shares its jar with
\* another category
C13_Witness ==
    /\ response.op = "bulk_update_expenses"
    /\ response.status = 200
    /\ Cardinality(response.body) = 2
    /\ \A e \in response.body :
           /\ jar_of_category(categories, expenses[e].category_id) # None
           /\ \E c \in DOMAIN categories :
                  /\ c # expenses[e].category_id
                  /\ categories[c].jar_id = categories[expenses[e].category_id].jar_id

----------------------------------------------------------------------------
(* The ledger primitive *)

\* C14: a call of update_jar_balance made for a user fails with NotFound when
\* the jar id is absent or the jar is another user's, and changes the
\* balance of no jar of another user.
C14_ApplyDeltaScopedToOwner ==
    [][response'.op = "update_jar_balance" =>
          LET u == response'.body[1]
              jar_id == response'.body[2]
          IN  /\ (jar_id \notin DOMAIN jars \/ jars[jar_id].user_id # u)
                     => response'.status = 404
              /\ \A j \in DOMAIN jars :
                     jars[j].user_id # u => jars'[j].balance = jars[j].balance]_vars

----------------------------------------------------------------------------
(* Atomicity *)

\* the rows and balances in the store
Persisted == <<jars, expenses, incomes, transfers>>

\* C16: a step of a request leaves the store as it was, or it is the commit
\* and stores every balance and every row the request changed together; a
\* request that fails leaves the store as it was.
C16_DeltaAndRowTogether ==
    [][/\ \/ UNCHANGED Persisted
          \/ /\ session.op # "" /\ session' = NoSession
             /\ expenses' = session.expenses
             /\ incomes' = session.incomes
             /\ transfers' = session.transfers
             /\ \A j \in DOMAIN jars :
                    jars'[j].balance =
                        RoundHalfAwayFromZero(session.jars[j].balance * 100
                                                  + session.shares[j], 100)
       /\ response'.status = 500 => UNCHANGED Persisted]_vars

\* a create_expense in a linked category that failed at the commit, after the
\* row was added and the jar was debited in memory, and left the store alone
C16_Witness ==
    /\ response.op = "create_expense"
    /\ response.status = 500
    /\ response.body = "ready"
    /\ session = NoSession
    /\ expenses = <<>>
    /\ jars[1].balance = 60000 /\ jars[2].balance = 40000

----------------------------------------------------------------------------
(* Failures in the materializer *)

\* C17: in a run in which the call for one due template raises, every other
\* due template is materialized, the returned count is the number of
\* expenses the run created, and the failing template ends with no expense
\* stored and its last_created unchanged.
C17_FailureIsolation ==
    [][(/\ response'.op = "process_all_due_expenses"
        /\ response'.detail \in FailurePoints
        /\ today' = today) =>
          LET count == response'.body[1]
              failing == response'.body[2]
              created == DOMAIN expenses' \ DOMAIN expenses
          IN  /\ \A id \in active_recurrings \ {failing} :
                     (/\ next_due_date(recurring[id], today) # None
                      /\ next_due_date(recurring[id], today) <= today)
                         => /\ recurring'[id].last_created
                                   = next_due_date(recurring[id], today)
                            /\ \E e \in created :
                                   expenses'[e].description = recurring[id].description
              /\ count = Cardinality(created)
              /\ recurring'[failing].last_created = recurring[failing].last_created
              /\ \A e \in created :
                     expenses'[e].description # recurring[failing].description]_vars

----------------------------------------------------------------------------
(* The schedule of a template *)

\* C18: next_due_date is None for a template that is not active and for one
\* whose end_date is before today, a date it returns is not after the
\* end_date, and no expense the materializer creates is dated after the
\* template's end_date.
C18_EndOfLife ==
    /\ response.op = "next_due_date" =>
           /\ ~recurring[1].is_active => response.body = None
           /\ (recurring[1].end_date # None /\ recurring[1].end_date < today)
                  => response.body = None
           /\ (recurring[1].end_date # None /\ response.body # None)
                  => response.body <= recurring[1].end_date
    /\ recurring[1].end_date # None =>
           \A e \in DOMAIN expenses : expenses[e].date <= recurring[1].end_date

\* an active template whose last expense was created on its end_date, read
\* after the end_date has passed
C18_Witness ==
    /\ response.op = "next_due_date"
    /\ response.body = None
    /\ recurring[1].is_active
    /\ recurring[1].end_date # None
    /\ recurring[1].end_date < today
    /\ recurring[1].last_created = recurring[1].end_date

\* the months since year 0 of the month of the date o
MonthOf(o) == ymd(o).year * 12 + ymd(o).month

\* C19: the date next_due_date returns for a monthly template with
\* last_created set lies in the month after last_created's month, on the day
\* day_of_month or on the month's last day when the month is shorter; the
\* expenses the materializer creates from it are in consecutive months.
C19_MonthlySchedule ==
    /\ (/\ response.op = "next_due_date"
        /\ recurring[1].frequency = "monthly"
        /\ recurring[1].last_created # None
        /\ response.body # None) =>
           /\ MonthOf(response.body) = MonthOf(recurring[1].last_created) + 1
           /\ recurring[1].day_of_month # None =>
                  ymd(response.body).day =
                      IF recurring[1].day_of_month
                             <= days_in_month(ymd(response.body).year,
                                              ymd(response.body).month)
                      THEN recurring[1].day_of_month
                      ELSE days_in_month(ymd(response.body).year,
                                         ymd(response.body).month)
    /\ recurring[1].frequency = "monthly" =>
           \A e \in DOMAIN expenses :
               e + 1 \in DOMAIN expenses =>
                   MonthOf(expenses[e + 1].date) = MonthOf(expenses[e].date) + 1

\* day_of_month 31, last_created 2024-01-31, read on 2024-02-10: 2024-02-29
C19_Witness ==
    /\ response.op = "next_due_date"
    /\ recurring[1].frequency = "monthly"
    /\ recurring[1].day_of_month = 31
    /\ recurring[1].last_created = toordinal(2024, 1, 31)
    /\ today = toordinal(2024, 2, 10)
    /\ response.body = toordinal(2024, 2, 29)

\* C20: the date next_due_date returns for a weekly template with
\* last_created set is last_created + 7 days, whatever today and day_of_week
\* are.
C20_WeeklySchedule ==
    (/\ response.op = "next_due_date"
     /\ recurring[1].frequency = "weekly"
     /\ recurring[1].last_created # None
     /\ response.body # None) =>
        response.body = recurring[1].last_created + 7

\* day_of_week 2, last_created 2024-03-06: 2024-03-13
C20_Witness ==
    /\ response.op = "next_due_date"
    /\ recurring[1].frequency = "weekly"
    /\ recurring[1].day_of_week = 2
    /\ recurring[1].last_created = toordinal(2024, 3, 6)
    /\ response.body = toordinal(2024, 3, 13)

----------------------------------------------------------------------------
(* Manual materialization *)

\* C21: a create_expense_from_template that stores an expense does so for a
\* template with an occurrence due on or before today and dates it on or
\* before today; for an active template with nothing due it answers 400 and
\* leaves the expenses and last_created as they were.
C21_ManualNeedsDueOccurrence ==
    [][(response'.op = "create_expense_from_template" /\ expense_seq' = expense_seq + 1) =>
          /\ expenses'[expense_seq'].date <= today
          /\ \E id \in DOMAIN recurring :
                 /\ recurring[id].description = expenses'[expense_seq'].description
                 /\ next_due_date(recurring[id], today) # None
                 /\ next_due_date(recurring[id], today) <= today]_vars

----------------------------------------------------------------------------
(* Requests in flight together *)

\* the change the request of a Session makes to the jar j
RequestDelta(ses, j) ==
    IF ses.op = "create_expense" THEN -ses.args[3]
    ELSE IF j = ses.args[2] THEN -ses.args[4] ELSE ses.args[4]

\* C22: the commit of a request stores, for every jar the request changed,
\* the balance the request read plus the request's own change, whatever the
\* row holds by then, and leaves the other jars alone: a change another
\* request committed in between is lost.
C22_ReadModifyWrite ==
    [][\A w \in Workers :
          (session[w] # NoSession /\ session[w].pc = "ready"
               /\ session'[w] = NoSession) =>
              \A j \in DOMAIN jars :
                  jars'[j].balance =
                      IF j \in session[w].dirty
                      THEN session[w].read[j].balance + RequestDelta(session[w], j)
                      ELSE jars[j].balance]_vars

\* an expense and a transfer on the same jar have both been committed and
\* the balances are no longer the opening balances less the expenses
C22_Witness ==
    /\ session = NoSessions
    /\ expense_seq = 1 /\ Len(transfers) = 1
    /\ jar_of_category(categories, expenses[1].category_id) = transfers[1].from_jar_id
    /\ SumBalances(jars) # Sum(opening, DOMAIN opening) + distributed - deducted

\* C23: an instance of the materializer that found a template due creates
\* its expense for the due date it computed from the last_created it held
\* and stores that date as last_created, whatever another instance has
\* stored in between: two instances create the same due date twice.
C23_InstancesDuplicate ==
    [][\A w \in Workers :
          (session[w].op = "process_all_due_expenses" /\ session[w].pc = "due"
               /\ session'[w].pc = "loop") =>
              /\ expense_seq' = expense_seq + 1
              /\ expenses'[expense_seq'].date = session[w].next_due
              /\ expenses'[expense_seq'].description
                     = recurring[session[w].id].description
              /\ recurring'[session[w].id].last_created = session[w].next_due]_vars

\* two instances have returned and the table holds two expenses of the same
\* template for the same due date
C23_Witness ==
    /\ session = NoSessions
    /\ response.op = "process_all_due_expenses"
    /\ \E e1 \in DOMAIN expenses, e2 \in DOMAIN expenses :
           /\ e1 # e2
           /\ expenses[e1].description = expenses[e2].description
           /\ expenses[e1].date = expenses[e2].date

----------------------------------------------------------------------------
(* update_expense *)

\* C24: an update_expense that changes the category credits the old
\* category's jar the old amount and debits the new category's jar the new
\* amount, both also when the two are one jar; one that keeps the category
\* changes the linked jar by the old amount less the new amount; no other
\* balance changes.
C24_RefundThenDeduct ==
    [][(response'.op = "update_expense" /\ response'.status = 200) =>
          LET prev == expenses[response'.body]
              new == expenses'[response'.body]
              old_jar == jar_of_category(categories, prev.category_id)
              new_jar == jar_of_category(categories, new.category_id)
          IN  \A j \in DOMAIN jars :
                  jars'[j].balance =
                      IF new.category_id # prev.category_id
                      THEN jars[j].balance
                           + (IF j = old_jar THEN prev.amount ELSE 0)
                           - (IF j = new_jar THEN new.amount ELSE 0)
                      ELSE IF j = new_jar
                      THEN jars[j].balance + prev.amount - new.amount
                      ELSE jars[j].balance]_vars

\* the only expense, created for 0.01, is now 0.02 in category 2, which is
\* linked to the same jar as category 1, and the jar is down by 0.02
C24_Witness ==
    /\ response.op = "update_expense" /\ response.status = 200
    /\ expense_seq = 1 /\ DOMAIN expenses = {1}
    /\ deducted = 1
    /\ expenses[1].amount = 2 /\ expenses[1].category_id = 2
    /\ jar_of_category(categories, 1) = 1 /\ jar_of_category(categories, 2) = 1
    /\ jars[1].balance = opening[1] - 2

----------------------------------------------------------------------------
(* One run of the materializer *)

\* the expenses a step adds for the template r
AddedFor(r) ==
    {e \in DOMAIN expenses' \ DOMAIN expenses :
        expenses'[e].description = r.description}

\* C25: a run of process_all_due_expenses creates, for every active template
\* whose next_due_date d is today or earlier, exactly one expense, dated d
\* with the template's amount and category, and sets its last_created to d;
\* it creates nothing for the other templates and leaves them unchanged.
C25_RunEffect ==
    [][(response'.op = "process_all_due_expenses" /\ today' = today) =>
          \A id \in DOMAIN recurring :
              IF /\ recurring[id].is_active
                 /\ next_due_date(recurring[id], today) # None
                 /\ next_due_date(recurring[id], today) <= today
              THEN /\ Cardinality(AddedFor(recurring[id])) = 1
                   /\ \A e \in AddedFor(recurring[id]) :
                          /\ expenses'[e].date = next_due_date(recurring[id], today)
                          /\ expenses'[e].amount = recurring[id].amount
                          /\ expenses'[e].category_id = recurring[id].category_id
                   /\ recurring'[id] =
                          [recurring[id] EXCEPT
                              !.last_created = next_due_date(recurring[id], today)]
              ELSE /\ AddedFor(recurring[id]) = {}
                   /\ recurring'[id] = recurring[id]]_vars

\* the first run on a weekly template that is two periods overdue, beside a
\* paused one: one expense, dated on the template's start_date
C25_Witness ==
    /\ response.op = "process_all_due_expenses" /\ response.body = 1
    /\ expense_seq = 1
    /\ expenses[1].date = toordinal(2024, 1, 17)
    /\ recurring[1].last_created = toordinal(2024, 1, 17)
    /\ today >= toordinal(2024, 1, 17) + 7
    /\ ~recurring[2].is_active /\ recurring[2].last_created = None

\* C26: for an active template that has never been materialized and whose
\* end_date is unset or not before today, next_due_date is start_date, or
\* None when start_date is after end_date, whatever the frequency,
\* day_of_month and day_of_week are.
C26_FirstOccurrence ==
    (/\ response.op = "next_due_date"
     /\ recurring[1].is_active
     /\ recurring[1].last_created = None
     /\ (recurring[1].end_date = None \/ recurring[1].end_date >= today)) =>
        response.body =
            IF recurring[1].end_date # None
                   /\ recurring[1].start_date > recurring[1].end_date
            THEN None
            ELSE recurring[1].start_date

\* a weekly template for Mondays that starts on Wednesday 2024-03-06 and
\* ends a week later, read on its start_date: 2024-03-06
C26_Witness ==
    /\ response.op = "next_due_date"
    /\ recurring[1].is_active
    /\ recurring[1].last_created = None
    /\ recurring[1].frequency = "weekly" /\ recurring[1].day_of_week = 0
    /\ recurring[1].start_date = toordinal(2024, 3, 6)
    /\ recurring[1].end_date = toordinal(2024, 3, 13)
    /\ today = toordinal(2024, 3, 6)
    /\ response.body = toordinal(2024, 3, 6)

----------------------------------------------------------------------------
(* Category links *)

\* the expenses a step removes
Removed == DOMAIN expenses \ DOMAIN expenses'

----------------------------------------------------------------------------
(* Where materialized expenses land *)

\* C28: every expense materialized from a weekly template is dated on the
\* template's day_of_week, and every expense materialized from a monthly
\* template on its day_of_month, or on the last day of a shorter month, the
\* first occurrence, taken from start_date, included.
C28_WeekdayLanding ==
    \A e \in DOMAIN expenses :
        /\ recurring[1].frequency = "weekly" =>
               weekday(expenses[e].date) = recurring[1].day_of_week
        /\ (recurring[1].frequency = "monthly" /\ recurring[1].day_of_month # None) =>
               ymd(expenses[e].date).day =
                   IF recurring[1].day_of_month
                          <= days_in_month(ymd(expenses[e].date).year,
                                           ymd(expenses[e].date).month)
                   THEN recurring[1].day_of_month
                   ELSE days_in_month(ymd(expenses[e].date).year,
                                      ymd(expenses[e].date).month)

----------------------------------------------------------------------------
(* Catching up *)

\* the occurrences of the template r that are due on day and not yet
\* materialized
RECURSIVE PeriodsDue(_, _)
PeriodsDue(r, day) ==
    IF next_due_date(r, day) = None THEN 0
    ELSE IF next_due_date(r, day) > day THEN 0
    ELSE 1 + PeriodsDue([r EXCEPT !.last_created = next_due_date(r, day)], day)

\* no template has an occurrence due today
CaughtUp == \A id \in DOMAIN recurring : PeriodsDue(recurring[id], today) = 0

\* C29: on a day that stays the same, every run of process_all_due_expenses
\* creates one expense for each template that has occurrences due and takes
\* one off their number, so a template k periods overdue is caught up after
\* exactly k runs; a run made when nothing is due creates nothing; and the
\* repeated runs reach a state in which nothing is due and stay there.
C29_CatchUpTerminates ==
    /\ [][response'.op = "process_all_due_expenses" =>
             \A id \in DOMAIN recurring :
                 IF PeriodsDue(recurring[id], today) > 0
                 THEN /\ PeriodsDue(recurring'[id], today)
                             = PeriodsDue(recurring[id], today) - 1
                      /\ Cardinality(AddedFor(recurring[id])) = 1
                 ELSE /\ PeriodsDue(recurring'[id], today) = 0
                      /\ AddedFor(recurring[id]) = {}]_vars
    /\ <>[]CaughtUp

\* a weekly template that was two periods overdue, after two runs: two
\* expenses a week apart and nothing left due
C29_Witness ==
    /\ CaughtUp
    /\ today = Epoch
    /\ recurring[1].frequency = "weekly"
    /\ expense_seq = 2
    /\ expenses[1].date = toordinal(2024, 1, 17)
    /\ expenses[2].date = toordinal(2024, 1, 24)
    /\ recurring[1].last_created = toordinal(2024, 1, 24)

----------------------------------------------------------------------------
(* The two schedule calculators *)

\* C30: the due date the recurring-expenses API reports for a template,
\* computed by calculate_next_due_date, is the due date the materializer
\* uses, RecurringExpense.next_due_date.
C30_OneScheduleCalculator ==
    (response.op = "get_recurring_expenses" /\ response.status = 200) =>
        response.body = next_due_date(recurring[1], today)

====
